---- MODULE Spec2Model ----
(***************************************************************************)
(* A model of opentui-doom: the keyboard bridge (doom-input.ts), the       *)
(* engine adapter (doom-engine.ts), the host loop (index.ts) and the key   *)
(* queue of the platform layer (doomgeneric_opentui.c).                    *)
(*                                                                         *)
(* JavaScript strings are modelled as sequences of UTF-16 code units, so   *)
(* that toLowerCase, charCodeAt, length and the relational operators on    *)
(* strings are computed rather than assumed.                               *)
(***************************************************************************)
EXTENDS Integers, Sequences, FiniteSets, TLC

(***************************************************************************)
(* Bounds of the model.                                                    *)
(***************************************************************************)
\* Key notifications delivered to the input handler in one behaviour.
MaxNotes == 2
\* Last instant (ms) the model clock reaches.
MaxTime == 400
\* Adapter calls (tick, pushKey, getFrameBuffer, frame callbacks) in one behaviour.
MaxOps == 4
\* Free slots left in the key queue by the fullest pre-filled starting states.
MaxFree == 2
\* Mouse movement notifications in one behaviour.
MaxMoves == 3
\* Mouse button notifications and resets of the mouse handler in one behaviour.
MaxClicks == 2
\* Last instant (ms) the clock reaches in the behaviours of the mouse handler.
MaxMouseTime == 150
\* Calls of the save manager in one run.
MaxSaveOps == 2
\* Runs of the save sync, and saves the engine writes, in one run of the model.
MaxSyncs == 2
MaxEngineSaves == 1
\* Player processes spawned in one run of the model.
MaxProcesses == 2
\* Running time of the host, in milliseconds.
MaxRunTime == 6000

(***************************************************************************)
(* Strings.                                                                *)
(***************************************************************************)
S_empty == << >>
S_up == <<117, 112>>
S_down == <<100, 111, 119, 110>>
S_left == <<108, 101, 102, 116>>
S_right == <<114, 105, 103, 104, 116>>
S_space == <<115, 112, 97, 99, 101>>
S_return == <<114, 101, 116, 117, 114, 110>>
S_enter == <<101, 110, 116, 101, 114>>
S_escape == <<101, 115, 99, 97, 112, 101>>
S_tab == <<116, 97, 98>>
S_backspace == <<98, 97, 99, 107, 115, 112, 97, 99, 101>>
S_alt == <<97, 108, 116>>
S_home == <<104, 111, 109, 101>>
S_f(n) == IF n < 10 THEN <<102, 48 + n>> ELSE <<102, 48 + (n \div 10), 48 + (n % 10)>>
\* A one-character string, from its character code.
Chr(c) == <<c>>
\* The escape sequence ESC [ c.
Csi(c) == <<27, 91, c>>

\* String.prototype.toLowerCase on the ASCII range.
toLowerCase(s) == [i \in 1..Len(s) |-> IF s[i] >= 65 /\ s[i] <= 90 THEN s[i] + 32 ELSE s[i]]

\* String.prototype.charCodeAt(0).
charCodeAt0(s) == s[1]

RECURSIVE StrLess(_, _)
\* a < b on strings: lexicographic by code unit, a proper prefix being smaller.
StrLess(a, b) ==
    IF Len(b) = 0 THEN FALSE
    ELSE IF Len(a) = 0 THEN TRUE
    ELSE IF a[1] # b[1] THEN a[1] < b[1]
    ELSE StrLess(Tail(a), Tail(b))

\* a <= b and a >= b on strings.
StrLE(a, b) == a = b \/ StrLess(a, b)
StrGE(a, b) == StrLE(b, a)

(***************************************************************************)
(* DoomKeys (doomkeys.h codes used by the bridge).                         *)
(***************************************************************************)
KEY_RIGHTARROW == 174
KEY_LEFTARROW == 172
KEY_UPARROW == 173
KEY_DOWNARROW == 175
KEY_STRAFE_L == 160
KEY_STRAFE_R == 161
KEY_FIRE == 163
KEY_ESCAPE == 27
KEY_ENTER == 13
KEY_TAB == 9
KEY_F1 == 187
KEY_F2 == 188
KEY_F3 == 189
KEY_F4 == 190
KEY_F5 == 191
KEY_F6 == 192
KEY_F7 == 193
KEY_F8 == 194
KEY_F9 == 195
KEY_F10 == 196
KEY_F11 == 215
KEY_F12 == 216
KEY_BACKSPACE == 127
KEY_EQUALS == 61
KEY_MINUS == 45
KEY_RSHIFT == 182
KEY_LALT == 184

(***************************************************************************)
(* mapKeyToDoom: a key event is [name, sequence, ctrl, meta, shift]; an    *)
(* absent name is the empty string (every use of key.name treats the two   *)
(* alike).                                                                 *)
(***************************************************************************)
MovementCodes_DirectionOnly(direction, char) == <<direction>>

\* A faulty variant: the two codes of a movement key packed into one number.
MovementCodes_Packed(direction, char) == <<direction * 256 + charCodeAt0(char)>>

\* return [DoomKeys.KEY_..., "w".charCodeAt(0)]: the movement code, then the character
MovementCodes(direction, char) == <<direction, charCodeAt0(char)>>

mapKeyToDoom(key) ==
    LET name == toLowerCase(key.name) IN
    IF name = S_up \/ key.sequence = Csi(65) THEN <<KEY_UPARROW>>
    ELSE IF name = S_down \/ key.sequence = Csi(66) THEN <<KEY_DOWNARROW>>
    ELSE IF name = S_left \/ key.sequence = Csi(68) THEN <<KEY_LEFTARROW>>
    ELSE IF name = S_right \/ key.sequence = Csi(67) THEN <<KEY_RIGHTARROW>>
    ELSE IF name = Chr(119) THEN MovementCodes(KEY_UPARROW, Chr(119))
    ELSE IF name = Chr(115) THEN MovementCodes(KEY_DOWNARROW, Chr(115))
    ELSE IF name = Chr(97) THEN MovementCodes(KEY_STRAFE_L, Chr(97))
    ELSE IF name = Chr(100) THEN MovementCodes(KEY_STRAFE_R, Chr(100))
    ELSE IF name = S_space THEN <<charCodeAt0(Chr(32))>>
    ELSE IF name = S_return \/ name = S_enter THEN <<KEY_ENTER>>
    ELSE IF name = S_escape THEN <<KEY_ESCAPE>>
    ELSE IF name = S_tab THEN <<KEY_TAB>>
    ELSE IF name = S_backspace THEN <<KEY_BACKSPACE>>
    ELSE IF key.ctrl /\ key.name # Chr(99) THEN <<KEY_FIRE>>
    ELSE IF key.meta \/ key.name = S_alt THEN <<KEY_LALT>>
    ELSE IF key.shift THEN <<KEY_RSHIFT>>
    ELSE IF name = S_f(1) THEN <<KEY_F1>>
    ELSE IF name = S_f(2) THEN <<KEY_F2>>
    ELSE IF name = S_f(3) THEN <<KEY_F3>>
    ELSE IF name = S_f(4) THEN <<KEY_F4>>
    ELSE IF name = S_f(5) THEN <<KEY_F5>>
    ELSE IF name = S_f(6) THEN <<KEY_F6>>
    ELSE IF name = S_f(7) THEN <<KEY_F7>>
    ELSE IF name = S_f(8) THEN <<KEY_F8>>
    ELSE IF name = S_f(9) THEN <<KEY_F9>>
    ELSE IF name = S_f(10) THEN <<KEY_F10>>
    ELSE IF name = S_f(11) THEN <<KEY_F11>>
    ELSE IF name = S_f(12) THEN <<KEY_F12>>
    ELSE IF StrGE(name, Chr(48)) /\ StrLE(name, Chr(57)) THEN <<charCodeAt0(name)>>
    ELSE IF name = Chr(43) \/ name = Chr(61) THEN <<KEY_EQUALS>>
    ELSE IF name = Chr(45) THEN <<KEY_MINUS>>
    ELSE IF name = Chr(121) THEN <<charCodeAt0(Chr(121))>>
    ELSE IF name = Chr(110) THEN <<charCodeAt0(Chr(110))>>
    ELSE IF Len(name) = 1 /\ StrGE(name, Chr(97)) /\ StrLE(name, Chr(122)) THEN <<charCodeAt0(name)>>
    ELSE << >>


(***************************************************************************)
(* State.                                                                  *)
(***************************************************************************)
VARIABLES
    \* DoomEngine (doom-engine.ts)
    module,           \* this.module is set (not null)
    initialized,      \* this.initialized
    frameBufferPtr,   \* this.frameBufferPtr
    loadPc,           \* where DoomEngine.init stands
    \* the WebAssembly side
    dg,               \* key_queue, key_queue_read, key_queue_write
    created,          \* doomgeneric_Create has returned
    nTicks,           \* calls of _doomgeneric_Tick so far
    nPush,            \* calls of _DG_PushKeyEvent so far
    seen,             \* the key events the engine's ticks have dequeued
    quitDelivered,    \* the engine has delivered its quit request
    screen,           \* what DG_ScreenBuffer holds
    \* the host (index.ts)
    host,             \* doomEngine, framebufferRenderable, callbacks installed
    lastCall,         \* the last adapter call and what it returned
    ops,              \* adapter calls made so far
    \* the keyboard bridge (doom-input.ts)
    keyStates,        \* Map keyId -> boolean
    keyTimers,        \* Map keyId -> timer handle (0: no entry)
    timers,           \* the runtime's pending timeouts
    nextTimer,        \* next timer handle
    now,              \* clock, ms
    noteLog,          \* the key notifications delivered so far
    pushLog,          \* the calls of engine.pushKey so far
    exitCalls,        \* calls of onExit so far
    \* the mouse handler (createDoomMouseHandler)
    mouse,            \* lastMouseX, isLeftMouseDown, currentTurnKey, releaseTimer
    mouseLog,         \* the mouse notifications delivered so far
    \* the save manager (saves.ts) and the two filesystems
    disk,             \* the durable filesystem: the save directory and its entries
    memfs,            \* the engine's private filesystem: path -> bytes
    saveCall,         \* the last call of the save manager: result and file operations
    saveOps,          \* calls of the save manager so far
    sync,             \* the runs of the save sync and what the last one did
    \* the audio system (doom-audio.ts)
    audio,            \* initialized, musicProcess, activeProcesses, the processes
    \* the host process (index.ts)
    exited            \* the process has exited

engineVars == <<module, initialized, frameBufferPtr, loadPc>>
wasmVars == <<dg, created, nTicks, nPush, seen, quitDelivered, screen>>
hostVars == <<host, lastCall, ops>>
mouseVars == <<mouse, mouseLog>>
inputVars == <<keyStates, keyTimers, timers, nextTimer, now, noteLog, pushLog, exitCalls,
               mouseVars>>
saveVars == <<disk, memfs, saveCall, saveOps, sync>>
audioVars == <<audio>>
sideVars == <<saveVars, audioVars, exited>>
vars == <<engineVars, wasmVars, hostVars, inputVars, sideVars>>

(***************************************************************************)
(* The key queue of doomgeneric_opentui.c.                                 *)
(***************************************************************************)
KEY_QUEUE_SIZE == 256

\* key_queue is held as the slots written so far; a slot never written reads
\* as the zero the C runtime initialises it to.
ZeroEvent == [pressed |-> 0, key |-> 0]

Slot(q, i) == IF i \in DOMAIN q.key_queue THEN q.key_queue[i] ELSE ZeroEvent

Store(q, i, ev) == (i :> ev) @@ q.key_queue

\* The queue as the C runtime zero-initialises it.
EmptyQueue ==
    [key_queue |-> << >>,
     key_queue_read |-> 0,
     key_queue_write |-> 0]

\* A drop-in faulty DG_PushKeyEvent: stores and advances without the full test.
DG_PushKeyEvent_NoFullTest(q, pressed, key) ==
    [q EXCEPT !.key_queue = Store(q, q.key_queue_write, [pressed |-> pressed, key |-> key % 256]),
              !.key_queue_write = (q.key_queue_write + 1) % KEY_QUEUE_SIZE]

\* void DG_PushKeyEvent(int pressed, unsigned char key)
DG_PushKeyEvent(q, pressed, key) ==
    LET next_write == (q.key_queue_write + 1) % KEY_QUEUE_SIZE IN
    IF next_write # q.key_queue_read
    THEN [q EXCEPT !.key_queue = Store(q, q.key_queue_write,
                                       [pressed |-> pressed, key |-> key % 256]),
                   !.key_queue_write = next_write]
    ELSE q

\* A faulty variant: the read index is advanced before the slot is read.
DG_GetKey_AdvanceFirst(q, pressed, key) ==
    IF q.key_queue_read # q.key_queue_write
    THEN [ret |-> 1,
          pressed |-> Slot(q, (q.key_queue_read + 1) % KEY_QUEUE_SIZE).pressed,
          key |-> Slot(q, (q.key_queue_read + 1) % KEY_QUEUE_SIZE).key,
          q |-> [q EXCEPT !.key_queue_read = (q.key_queue_read + 1) % KEY_QUEUE_SIZE]]
    ELSE [ret |-> 0, pressed |-> pressed, key |-> key, q |-> q]

\* int DG_GetKey(int *pressed, unsigned char *key), called with *pressed and
\* *key holding `pressed` and `key`: the return value, what the two outputs
\* hold afterwards and the queue afterwards.
DG_GetKey(q, pressed, key) ==
    IF q.key_queue_read # q.key_queue_write
    THEN [ret |-> 1,
          pressed |-> Slot(q, q.key_queue_read).pressed,
          key |-> Slot(q, q.key_queue_read).key,
          q |-> [q EXCEPT !.key_queue_read = (q.key_queue_read + 1) % KEY_QUEUE_SIZE]]
    ELSE [ret |-> 0, pressed |-> pressed, key |-> key, q |-> q]

\* The queue is full: the next push is refused.
QueueFull(q) == (q.key_queue_write + 1) % KEY_QUEUE_SIZE = q.key_queue_read

\* Number of events waiting in the queue.
QueueCount(q) == (q.key_queue_write - q.key_queue_read + KEY_QUEUE_SIZE) % KEY_QUEUE_SIZE

\* The waiting events, oldest first.
QueueContents(q) ==
    [i \in 1..QueueCount(q) |-> Slot(q, (q.key_queue_read + i - 1) % KEY_QUEUE_SIZE)]

(***************************************************************************)
(* DoomEngine.pushKey.  w carries what a push can change: the queue and    *)
(* the count of calls into the WebAssembly module.                         *)
(***************************************************************************)
\* A faulty variant: only the module is tested.
NotReady_ModuleOnly(mod, init) == ~mod

\* tick, pushKey and getFrameBuffer all start with this test.
NotReady(mod, init) == ~mod \/ ~init

pushKey(w, pressed, key) ==
    IF NotReady(module, initialized) THEN w
    ELSE [w EXCEPT !.dg = DG_PushKeyEvent(w.dg, IF pressed THEN 1 ELSE 0, key),
                   !.nPush = w.nPush + 1]

\* engine.pushKey called by `src`, recorded in the log of calls.
CallPushKey(w, src, note, pressed, key) ==
    LET w2 == pushKey([dg |-> w.dg, nPush |-> w.nPush], pressed, key) IN
    [dg |-> w2.dg,
     nPush |-> w2.nPush,
     log |-> Append(w.log, [src |-> src, note |-> note, pressed |-> pressed, key |-> key,
                            at |-> now, tick |-> nTicks,
                            forwarded |-> w2.nPush # w.nPush,
                            accepted |-> w2.dg # w.dg])]

RECURSIVE PushEach(_, _, _, _, _)
\* for (const doomKey of doomKeys) engine.pushKey(pressed, doomKey)
PushEach(w, src, note, pressed, doomKeys) ==
    IF Len(doomKeys) = 0 THEN w
    ELSE PushEach(CallPushKey(w, src, note, pressed, Head(doomKeys)), src, note, pressed,
                  Tail(doomKeys))

World == [dg |-> dg, nPush |-> nPush, log |-> pushLog]


(***************************************************************************)
(* The keyboard bridge: createDoomInputHandler.                            *)
(***************************************************************************)
\* Delay of the release timer of an ordinary key, ms.
KEY_RELEASE_DELAY == 300
\* Delay of the release timer of a menu confirmation key, ms.
CONFIRM_RELEASE_DELAY == 50

Key(name, sequence, ctrl, meta, shift) ==
    [name |-> name, sequence |-> sequence, ctrl |-> ctrl, meta |-> meta, shift |-> shift]

K_up == Key(S_up, Csi(65), FALSE, FALSE, FALSE)
K_w == Key(Chr(119), Chr(119), FALSE, FALSE, FALSE)
K_s == Key(Chr(115), Chr(115), FALSE, FALSE, FALSE)
K_a == Key(Chr(97), Chr(97), FALSE, FALSE, FALSE)
K_d == Key(Chr(100), Chr(100), FALSE, FALSE, FALSE)
K_shift_w == Key(Chr(119), Chr(87), FALSE, FALSE, TRUE)
K_x == Key(Chr(120), Chr(120), FALSE, FALSE, FALSE)
K_ctrl_x == Key(Chr(120), Chr(24), TRUE, FALSE, FALSE)
K_y == Key(Chr(121), Chr(121), FALSE, FALSE, FALSE)
K_n == Key(Chr(110), Chr(110), FALSE, FALSE, FALSE)
K_ctrl_c == Key(Chr(99), Chr(3), TRUE, FALSE, FALSE)
K_home == Key(S_home, Csi(72), FALSE, FALSE, FALSE)
K_shift_home == Key(S_home, Csi(72), FALSE, FALSE, TRUE)
K_f12 == Key(S_f(12), Csi(50) \o <<52, 126>>, FALSE, FALSE, FALSE)

\* The key notifications the terminal delivers in this model.
KeyEvents == {K_up, K_w, K_x, K_ctrl_x, K_y, K_n, K_ctrl_c, K_home}

\* const keyId = key.name || key.sequence || ""
KeyIdOf(key) ==
    IF Len(key.name) > 0 THEN key.name
    ELSE IF Len(key.sequence) > 0 THEN key.sequence
    ELSE S_empty

\* The movement keys, with an arrow key and a letter key beside them.
MovementKeyEvents == {K_w, K_s, K_a, K_d, K_shift_w, K_up, K_x}

\* The keys delivered where the keyboard and the mouse share one engine.
ControlKeys == {K_y, K_f12}

KeyIds == {KeyIdOf(k) : k \in KeyEvents \cup MovementKeyEvents \cup ControlKeys}

\* A faulty variant: the handler has no test for Ctrl+C.
IsCtrlC_Missing(key) == FALSE

\* key.ctrl && (key.name === "c" || key.sequence === "\x03")
IsCtrlC(key) == key.ctrl /\ (key.name = Chr(99) \/ key.sequence = Chr(3))

\* const isMenuConfirmKey = keyName === "y" || keyName === "n"
isMenuConfirmKey(keyName) == keyName = Chr(121) \/ keyName = Chr(110)

\* A faulty variant: the press is sent on every notification.
ShouldPress_Always(wasPressed, isConfirm) == TRUE

\* A faulty variant: a confirmation key is treated like any other key.
ShouldPress_IgnoreConfirm(wasPressed, isConfirm) == ~wasPressed

\* if (!wasPressed || isMenuConfirmKey)
ShouldPress(wasPressed, isConfirm) == ~wasPressed \/ isConfirm

\* A faulty variant: a cancelled timeout stays pending.
clearTimeout_Noop(pending, handle) == pending

\* clearTimeout(handle): the pending timeouts without that one.
clearTimeout(pending, handle) == {t \in pending : t.id # handle}

\* if (existingTimer) { clearTimeout(existingTimer); keyTimers.delete(keyId); }
ClearExisting(pending, table, keyId) ==
    IF table[keyId] # 0
    THEN [timers |-> clearTimeout(pending, table[keyId]),
          keyTimers |-> [table EXCEPT ![keyId] = 0]]
    ELSE [timers |-> pending, keyTimers |-> table]

\* A faulty variant: the release timer releases the first code only.
ReleaseCodes_FirstOnly(doomKeys) == <<doomKeys[1]>>

\* The codes the release timer sends: every code of the notification.
ReleaseCodes(doomKeys) == doomKeys

\* setTimeout(..., 50): when the confirmation release is due.
ConfirmDue(t) == t + CONFIRM_RELEASE_DELAY

\* setTimeout(..., 300): when the ordinary release is due.
ReleaseDue(t) == t + KEY_RELEASE_DELAY

\* A pending timeout.
Timer(id, kind, keyId, doomKeys, due, note) ==
    [id |-> id, kind |-> kind, keyId |-> keyId, doomKeys |-> doomKeys, due |-> due, note |-> note]

NoCodes_Never(doomKeys) == FALSE

\* if (doomKeys.length === 0) return;
NoCodes(doomKeys) == Len(doomKeys) = 0

\* The handler returned by createDoomInputHandler, called with `key`.
KeyNotify(key) ==
    /\ Len(noteLog) < MaxNotes
    /\ LET note == Len(noteLog) + 1
           keyId == KeyIdOf(key)
           doomKeys == mapKeyToDoom(key)
           wasPressed == keyStates[keyId]
           keyName == toLowerCase(key.name)
           isConfirm == isMenuConfirmKey(keyName)
           cleared == ClearExisting(timers, keyTimers, keyId)
           press == ShouldPress(wasPressed, isConfirm)
           w == IF press THEN PushEach(World, keyId, note, TRUE, doomKeys) ELSE World
       IN
       /\ noteLog' = Append(noteLog, [keyId |-> keyId, key |-> key, at |-> now,
                                      wasPressed |-> wasPressed])
       /\ IF IsCtrlC(key)
          THEN /\ exitCalls' = exitCalls + 1
               /\ UNCHANGED <<keyStates, keyTimers, timers, nextTimer, pushLog, dg, nPush>>
          ELSE IF NoCodes(doomKeys)
          THEN UNCHANGED <<keyStates, keyTimers, timers, nextTimer, pushLog, dg, nPush, exitCalls>>
          ELSE /\ keyStates' = IF press THEN [keyStates EXCEPT ![keyId] = TRUE] ELSE keyStates
               /\ dg' = w.dg
               /\ nPush' = w.nPush
               /\ pushLog' = w.log
               /\ nextTimer' = nextTimer + 1
               /\ IF press /\ isConfirm
                  THEN /\ timers' = cleared.timers \cup
                            {Timer(nextTimer, "confirm", keyId, doomKeys, ConfirmDue(now), note)}
                       /\ keyTimers' = cleared.keyTimers
                  ELSE /\ timers' = cleared.timers \cup
                            {Timer(nextTimer, "release", keyId, doomKeys, ReleaseDue(now), note)}
                       /\ keyTimers' = [cleared.keyTimers EXCEPT ![keyId] = nextTimer]
               /\ UNCHANGED exitCalls
    /\ UNCHANGED <<now, engineVars, created, nTicks, seen, quitDelivered, screen, hostVars, sideVars,
                   mouseVars>>

\* The callback of the 50 ms timeout of a confirmation key.
ConfirmTimerFires(t) ==
    LET w == PushEach(World, t.keyId, t.note, FALSE, ReleaseCodes(t.doomKeys)) IN
    /\ dg' = w.dg
    /\ nPush' = w.nPush
    /\ pushLog' = w.log
    /\ keyStates' = [keyStates EXCEPT ![t.keyId] = FALSE]
    /\ UNCHANGED keyTimers

\* The callback of the 300 ms timeout of an ordinary key.
ReleaseTimerFires(t) ==
    IF keyStates[t.keyId]
    THEN LET w == PushEach(World, t.keyId, t.note, FALSE, ReleaseCodes(t.doomKeys)) IN
         /\ keyStates' = [keyStates EXCEPT ![t.keyId] = FALSE]
         /\ dg' = w.dg
         /\ nPush' = w.nPush
         /\ pushLog' = w.log
         /\ keyTimers' = [keyTimers EXCEPT ![t.keyId] = 0]
    ELSE UNCHANGED <<keyStates, dg, nPush, pushLog, keyTimers>>

\* The runtime runs a timeout that is due.
FireTimer ==
    /\ \E t \in timers :
          /\ t.kind \in {"confirm", "release"}
          /\ t.due <= now
          /\ timers' = timers \ {t}
          /\ IF t.kind = "confirm" THEN ConfirmTimerFires(t) ELSE ReleaseTimerFires(t)
    /\ UNCHANGED <<nextTimer, now, noteLog, exitCalls, mouseVars>>
    /\ UNCHANGED <<engineVars, created, nTicks, seen, quitDelivered, screen, hostVars, sideVars>>

\* The clock moves on, up to `limit`; a timeout that is due runs before it does.
ClockTick(limit) ==
    /\ now + CONFIRM_RELEASE_DELAY <= limit
    /\ \A t \in timers : t.due > now
    /\ now' = now + CONFIRM_RELEASE_DELAY
    /\ UNCHANGED <<keyStates, keyTimers, timers, nextTimer, noteLog, pushLog, exitCalls,
                   mouseVars>>
    /\ UNCHANGED <<engineVars, wasmVars, hostVars, sideVars>>

AdvanceTime == ClockTick(MaxTime)

(***************************************************************************)
(* The mouse handler: createDoomMouseHandler.                              *)
(***************************************************************************)
\* const RELEASE_DELAY = 100
RELEASE_DELAY == 100

\* lastMouseX is null.
NoX == 0 - 1

\* Columns the pointer is reported in, and the buttons reported.
MouseXs == {0, 1, 2}
Buttons == {0, 1}

\* The state createDoomMouseHandler starts with; 0 stands for a null
\* currentTurnKey and for a null releaseTimer.
MouseIdle ==
    [lastMouseX |-> NoX, isLeftMouseDown |-> FALSE, currentTurnKey |-> 0, releaseTimer |-> 0]

\* const newTurnKey = delta > 0 ? DoomKeys.KEY_RIGHTARROW : DoomKeys.KEY_LEFTARROW
NewTurnKey(delta) == IF delta > 0 THEN KEY_RIGHTARROW ELSE KEY_LEFTARROW

\* A faulty variant: on a direction change the new key is pressed and the old
\* one is left to its timer.
TurnPushes_NoRelease(currentTurnKey, newTurnKey) ==
    IF currentTurnKey # newTurnKey THEN <<<<TRUE, newTurnKey>>>> ELSE << >>

\* The pushKey calls of onMouseMove: if the direction changed, the release of
\* the old turn key (when there is one), then the press of the new one.
TurnPushes(currentTurnKey, newTurnKey) ==
    IF currentTurnKey # newTurnKey
    THEN (IF currentTurnKey # 0 THEN <<<<FALSE, currentTurnKey>>>> ELSE << >>)
         \o <<<<TRUE, newTurnKey>>>>
    ELSE << >>

\* A faulty variant: the turn key is held as long as a keyboard key.
MouseReleaseDue_KeyDelay(t) == t + KEY_RELEASE_DELAY

\* setTimeout(..., RELEASE_DELAY): when the release of the turn key is due.
MouseReleaseDue(t) == t + RELEASE_DELAY

RECURSIVE PushEvents(_, _, _, _)
\* engine.pushKey(pressed, key) for each <<pressed, key>> of `events`, in order.
PushEvents(w, src, note, events) ==
    IF Len(events) = 0 THEN w
    ELSE PushEvents(CallPushKey(w, src, note, Head(events)[1], Head(events)[2]), src, note,
                    Tail(events))

\* Mouse notifications and resets delivered so far.
MovesSoFar == Cardinality({i \in 1..Len(mouseLog) : mouseLog[i].kind = "move"})
ClicksSoFar == Len(mouseLog) - MovesSoFar

\* What is recorded of a notification: the handler's state when it came.
MouseNote(kind, arg) ==
    [kind |-> kind, arg |-> arg, at |-> now, held |-> mouse.currentTurnKey,
     lastMouseX |-> mouse.lastMouseX, down |-> mouse.isLeftMouseDown,
     timer |-> mouse.releaseTimer]

\* The pushes of a mouse notification take effect.
MousePushes(src, note, events) ==
    LET w == PushEvents(World, src, note, events) IN
    /\ dg' = w.dg
    /\ nPush' = w.nPush
    /\ pushLog' = w.log

\* onMouseMove(x, _y)
MouseMove(x) ==
    /\ MovesSoFar < MaxMoves
    /\ mouseLog' = Append(mouseLog, MouseNote("move", x))
    /\ LET note == Len(mouseLog) + 1
           delta == x - mouse.lastMouseX
           newTurnKey == NewTurnKey(delta)
           pending == IF mouse.releaseTimer # 0
                      THEN clearTimeout(timers, mouse.releaseTimer) ELSE timers
       IN
       IF mouse.lastMouseX = NoX \/ delta = 0
       THEN /\ mouse' = [mouse EXCEPT !.lastMouseX = x]
            /\ UNCHANGED <<timers, nextTimer, dg, nPush, pushLog>>
       ELSE /\ MousePushes("mouse", note, TurnPushes(mouse.currentTurnKey, newTurnKey))
            /\ mouse' = [mouse EXCEPT !.lastMouseX = x, !.currentTurnKey = newTurnKey,
                                      !.releaseTimer = nextTimer]
            /\ timers' = pending \cup
                    {Timer(nextTimer, "mouse", << >>, << >>, MouseReleaseDue(now), note)}
            /\ nextTimer' = nextTimer + 1
    /\ UNCHANGED <<keyStates, keyTimers, now, noteLog, exitCalls>>
    /\ UNCHANGED <<engineVars, created, nTicks, seen, quitDelivered, screen, hostVars, sideVars>>

\* The callback of the release timeout of onMouseMove.
MouseTimerFires ==
    /\ \E t \in timers :
          /\ t.kind = "mouse"
          /\ t.due <= now
          /\ timers' = timers \ {t}
          /\ MousePushes("mouseTimer", t.note,
                         IF mouse.currentTurnKey # 0
                         THEN <<<<FALSE, mouse.currentTurnKey>>>> ELSE << >>)
          /\ mouse' = [mouse EXCEPT !.currentTurnKey = 0, !.releaseTimer = 0]
    /\ UNCHANGED <<keyStates, keyTimers, nextTimer, now, noteLog, exitCalls, mouseLog>>
    /\ UNCHANGED <<engineVars, created, nTicks, seen, quitDelivered, screen, hostVars, sideVars>>

\* onMouseDown(button); a notification that changes nothing is not recorded.
MouseDown(button) ==
    /\ IF button = 0 /\ ~mouse.isLeftMouseDown
       THEN /\ ClicksSoFar < MaxClicks
            /\ mouseLog' = Append(mouseLog, MouseNote("down", button))
            /\ mouse' = [mouse EXCEPT !.isLeftMouseDown = TRUE]
            /\ MousePushes("mouse", Len(mouseLog) + 1, <<<<TRUE, KEY_FIRE>>>>)
       ELSE UNCHANGED <<mouse, mouseLog, dg, nPush, pushLog>>
    /\ UNCHANGED <<keyStates, keyTimers, timers, nextTimer, now, noteLog, exitCalls>>
    /\ UNCHANGED <<engineVars, created, nTicks, seen, quitDelivered, screen, hostVars, sideVars>>

\* onMouseUp(button); a notification that changes nothing is not recorded.
MouseUp(button) ==
    /\ IF button = 0 /\ mouse.isLeftMouseDown
       THEN /\ ClicksSoFar < MaxClicks
            /\ mouseLog' = Append(mouseLog, MouseNote("up", button))
            /\ mouse' = [mouse EXCEPT !.isLeftMouseDown = FALSE]
            /\ MousePushes("mouse", Len(mouseLog) + 1, <<<<FALSE, KEY_FIRE>>>>)
       ELSE UNCHANGED <<mouse, mouseLog, dg, nPush, pushLog>>
    /\ UNCHANGED <<keyStates, keyTimers, timers, nextTimer, now, noteLog, exitCalls>>
    /\ UNCHANGED <<engineVars, created, nTicks, seen, quitDelivered, screen, hostVars, sideVars>>

\* A faulty variant: reset forgets the handle without cancelling the timeout.
MouseReset_LeavesTimer ==
    /\ ClicksSoFar < MaxClicks
    /\ mouseLog' = Append(mouseLog, MouseNote("reset", 0))
    /\ MousePushes("mouse", Len(mouseLog) + 1,
                   (IF mouse.currentTurnKey # 0
                    THEN <<<<FALSE, mouse.currentTurnKey>>>> ELSE << >>)
                   \o (IF mouse.isLeftMouseDown THEN <<<<FALSE, KEY_FIRE>>>> ELSE << >>))
    /\ mouse' = MouseIdle
    /\ UNCHANGED <<keyStates, keyTimers, timers, nextTimer, now, noteLog, exitCalls>>
    /\ UNCHANGED <<engineVars, created, nTicks, seen, quitDelivered, screen, hostVars, sideVars>>

\* reset()
MouseReset ==
    /\ ClicksSoFar < MaxClicks
    /\ mouseLog' = Append(mouseLog, MouseNote("reset", 0))
    /\ timers' = IF mouse.releaseTimer # 0
                 THEN clearTimeout(timers, mouse.releaseTimer) ELSE timers
    /\ MousePushes("mouse", Len(mouseLog) + 1,
                   (IF mouse.currentTurnKey # 0
                    THEN <<<<FALSE, mouse.currentTurnKey>>>> ELSE << >>)
                   \o (IF mouse.isLeftMouseDown THEN <<<<FALSE, KEY_FIRE>>>> ELSE << >>))
    /\ mouse' = MouseIdle
    /\ UNCHANGED <<keyStates, keyTimers, nextTimer, now, noteLog, exitCalls>>
    /\ UNCHANGED <<engineVars, created, nTicks, seen, quitDelivered, screen, hostVars, sideVars>>

(***************************************************************************)
(* The engine's screen.  DG_ScreenBuffer holds DOOM_WIDTH * DOOM_HEIGHT     *)
(* 32-bit ARGB words; a frame is described by the rule that gives word i.  *)
(***************************************************************************)
DOOM_WIDTH == 1280
DOOM_HEIGHT == 800

\* Pure red, opaque: the word 0xFFFF0000, as the signed 32-bit value that
\* getValue(ptr, 'i32') reads.
RED == 0 - 65536

\* The word with top byte a and bytes r, g, b below it, as the signed 32-bit
\* value that getValue(ptr, 'i32') reads.
Argb(a, r, g, b) ==
    (IF a >= 128 THEN a - 256 ELSE a) * 16777216 + r * 65536 + g * 256 + b

\* A word whose four bytes all differ and whose top byte is neither 0 nor 255.
SLATE == Argb(128, 1, 2, 3)

\* A frame of one colour, and a frame whose words depend on the pixel index
\* (top byte 0, so the alpha the engine leaves is not 255).
Uniform(argb) == [kind |-> "uniform", argb |-> argb]
Ramp(seed) == [kind |-> "ramp", seed |-> seed]

\* The frames the engine draws in this model.
Frames == {Uniform(RED), Ramp(1), Uniform(SLATE)}

\* The frame in the buffer when doomgeneric_Create returns.
FirstFrame == Uniform(RED)

\* Word i of the frame f, as a signed 32-bit value.
ScreenWord(f, i) ==
    IF f.kind = "uniform" THEN f.argb
    ELSE (((i % DOOM_WIDTH) + 7 * (i \div DOOM_WIDTH) + f.seed) % 256) * 65793

(***************************************************************************)
(* Numbers of the host language: IEEE 754 doubles.  The blit divides and   *)
(* multiplies non-negative values; such a value is held exactly, as its    *)
(* integer part and the bits of its binary fraction (first bit = 1/2).     *)
(***************************************************************************)
\* Significant bits of a double.
MANTISSA_BITS == 53

\* Number of bits of the natural number n (0 for 0).
BitLen(n) == CHOOSE k \in 0..30 : n < 2^k /\ (k = 0 \/ n >= 2^(k - 1))

\* The first k bits of the binary fraction r/d (r < d), and what is left over.
RECURSIVE FracBits(_, _, _, _)
FracBits(r, d, k, acc) ==
    IF k = 0 THEN [bits |-> acc, rem |-> r]
    ELSE FracBits((2 * r) % d, d, k - 1, Append(acc, (2 * r) \div d))

\* Zero bits before the first one bit of the binary fraction r/d (0 < r < d).
RECURSIVE LeadingZeros(_, _)
LeadingZeros(r, d) == IF 2 * r >= d THEN 0 ELSE 1 + LeadingZeros(2 * r, d)

\* Zero bits at the head of a sequence of bits.
ZerosAtHead(bits) ==
    IF \A i \in 1..Len(bits) : bits[i] = 0 THEN Len(bits)
    ELSE (CHOOSE i \in 1..Len(bits) : bits[i] = 1 /\ \A j \in 1..(i - 1) : bits[j] = 0) - 1

\* Fraction bits a double keeps for a value with this integer part and fraction.
KeptBits(int, zeros) == IF int > 0 THEN MANTISSA_BITS - BitLen(int) ELSE zeros + MANTISSA_BITS

\* One unit in the last place added to v.
NextUp(v) ==
    IF \A i \in 1..Len(v.frac) : v.frac[i] = 1
    THEN [int |-> v.int + 1, frac |-> [i \in 1..Len(v.frac) |-> 0]]
    ELSE LET p == CHOOSE i \in 1..Len(v.frac) :
                      v.frac[i] = 0 /\ \A j \in (i + 1)..Len(v.frac) : v.frac[j] = 1
         IN [int |-> v.int,
             frac |-> [i \in 1..Len(v.frac) |-> IF i < p THEN v.frac[i] ELSE IF i = p THEN 1 ELSE 0]]

\* The double nearest to the exact value v, ties to the even mantissa.
RoundToDouble(v) ==
    LET keep == KeptBits(v.int, ZerosAtHead(v.frac)) IN
    IF keep >= Len(v.frac) THEN v
    ELSE LET kept == [int |-> v.int, frac |-> SubSeq(v.frac, 1, keep)]
             guard == v.frac[keep + 1]
             sticky == \E i \in (keep + 2)..Len(v.frac) : v.frac[i] = 1
             odd == kept.frac[keep] = 1
         IN IF guard = 1 /\ (sticky \/ odd) THEN NextUp(kept) ELSE kept

\* n / d to one bit more than a double keeps, then a bit that tells whether
\* anything non-zero follows: all the rounding needs.
Quotient(n, d) ==
    LET q == n \div d
        r == n % d
        keep == KeptBits(q, IF r = 0 THEN 0 ELSE LeadingZeros(r, d))
        f == FracBits(r, d, keep + 1, << >>)
    IN
    IF r = 0 THEN [int |-> q, frac |-> << >>]
    ELSE [int |-> q, frac |-> Append(f.bits, IF f.rem # 0 THEN 1 ELSE 0)]

\* The exact product of the natural number k and v: the fraction bits from
\* the last to the first, with the carry.
RECURSIVE TimesBits(_, _, _, _, _)
TimesBits(k, frac, i, carry, acc) ==
    IF i = 0 THEN [carry |-> carry, bits |-> acc]
    ELSE TimesBits(k, frac, i - 1, (k * frac[i] + carry) \div 2,
                   <<(k * frac[i] + carry) % 2>> \o acc)

Product(k, v) ==
    LET t == TimesBits(k, v.frac, Len(v.frac), 0, << >>) IN
    [int |-> k * v.int + t.carry, frac |-> t.bits]

\* n / d for integers n >= 0 and d > 0, as the host language computes it.
Divide(n, d) == RoundToDouble(Quotient(n, d))

\* k * v for an integer k >= 0 and a double v.
Multiply(k, v) == RoundToDouble(Product(k, v))

\* Math.floor of a non-negative double.
Math_floor(v) == v.int

(***************************************************************************)
(* The bridge attached to an engine whose load has completed.              *)
(***************************************************************************)
\* Address the engine reports for its screen buffer.
SCREEN_ADDR == 65536

\* Cells that nothing has written since the grid was made or resized.
Unwritten == [kind |-> "unwritten"]

\* The frame buffer of the renderable, as made for, or resized to, width x height.
Grid(width, height) ==
    [width |-> width, height |-> height, cells |-> Unwritten, resized |-> FALSE]

\* Terminal size in the scenario of the specification: 80 columns, 24 rows.
DefaultTerminal == <<80, 24>>

\* Terminal sizes: the default one, one at which the scale factors are not
\* exact in binary, and a terminal that has no columns or no rows yet.
TerminalSizes == {DefaultTerminal, <<154, 97>>, <<0, 24>>, <<80, 0>>}

HostRunning ==
    [doomEngine |-> TRUE, framebufferRenderable |-> TRUE, inputHandler |-> TRUE,
     frameCallback |-> TRUE, error |-> FALSE,
     terminal |-> DefaultTerminal, fb |-> Grid(DefaultTerminal[1], DefaultTerminal[2])]

NoCall == [op |-> "none"]

(***************************************************************************)
(* The audio bridge (doom-audio.ts).  A player process is spawned running; *)
(* kill sends it a signal and returns, and the process exits in a later    *)
(* step of its own, when its exit handler removes it from the tracking set.*)
(***************************************************************************)
\* null, for musicProcess and for the result of spawnMpv
NoProcess == 0

\* null, for currentMusicName
NoName == ""

\* join(soundDir, `ds${name}.wav`) and join(soundDir, `${name}.mp3`)
SoundPath(name) == <<"sound", "ds", name, "wav">>
MusicPath(name) == <<"sound", name, "mp3">>

\* Math.round((volume / 127) * 100)
MpvVolume(volume) == (200 * volume + 127) \div 254

\* The module state after import: nothing spawned, not initialized.
AudioIdle ==
    [initialized |-> FALSE, musicProcess |-> NoProcess, activeProcesses |-> {},
     currentVolume |-> 100, currentMusicName |-> NoName, currentMusicLooping |-> FALSE,
     processes |-> << >>, ipc |-> << >>]

\* proc.kill(signal): the signal reaches a process that has not exited.
kill(a, proc, signal) ==
    IF a.processes[proc].state = "running"
    THEN [a EXCEPT !.processes[proc].signals = @ \cup {signal}]
    ELSE a

RECURSIVE KillAll(_, _, _)
\* for (const proc of activeProcesses) proc.kill("SIGKILL")
KillAll(a, procs, signal) ==
    IF procs = {} THEN a
    ELSE LET proc == CHOOSE p \in procs : TRUE IN
         KillAll(kill(a, proc, signal), procs \ {proc}, signal)

\* initAudio()
initAudio(a) == IF a.initialized THEN a ELSE [a EXCEPT !.initialized = TRUE]

\* A faulty variant: only the music process is killed, the set is cleared.
shutdownAudio_MusicOnly(a) ==
    IF ~a.initialized THEN a
    ELSE LET music == IF a.musicProcess # NoProcess
                      THEN [kill(a, a.musicProcess, "SIGKILL") EXCEPT !.musicProcess = NoProcess]
                      ELSE a
         IN [music EXCEPT !.activeProcesses = {}, !.initialized = FALSE]

\* shutdownAudio()
shutdownAudio(a) ==
    IF ~a.initialized THEN a
    ELSE LET music == IF a.musicProcess # NoProcess
                      THEN [kill(a, a.musicProcess, "SIGKILL") EXCEPT !.musicProcess = NoProcess]
                      ELSE a
             killed == KillAll(music, music.activeProcesses, "SIGKILL")
         IN [killed EXCEPT !.activeProcesses = {}, !.initialized = FALSE]

\* spawnMpv(filePath, options); started is FALSE when the file is missing or
\* spawn throws, and the result is then null.  The options are the command
\* line of the player; the bridge keeps nothing of them.
spawnMpv(a, filePath, options, started) ==
    IF ~started THEN [audio |-> a, proc |-> NoProcess]
    ELSE LET proc == Len(a.processes) + 1 IN
         [audio |-> [a EXCEPT !.processes = Append(@, [filePath |-> filePath,
                                                        state |-> "running", signals |-> {}]),
                              !.activeProcesses = @ \cup {proc}],
          proc |-> proc]

\* playSound(name, volume)
playSound(a, name, volume, started) ==
    IF ~a.initialized THEN a
    ELSE spawnMpv(a, SoundPath(name),
                  [ipc |-> FALSE, loop |-> FALSE, volume |-> MpvVolume(volume)], started).audio

\* stopMusic()
stopMusic(a) ==
    IF a.musicProcess # NoProcess
    THEN [kill(a, a.musicProcess, "SIGTERM") EXCEPT
             !.activeProcesses = @ \ {a.musicProcess},
             !.musicProcess = NoProcess,
             !.currentMusicName = NoName]
    ELSE [a EXCEPT !.currentMusicName = NoName]

\* playMusic(name, looping)
playMusic(a, name, looping, started) ==
    IF ~a.initialized THEN a
    ELSE LET stopped == [stopMusic(a) EXCEPT !.currentMusicName = name,
                                              !.currentMusicLooping = looping]
             spawned == spawnMpv(stopped, MusicPath(name),
                                 [ipc |-> TRUE, loop |-> looping,
                                  volume |-> MpvVolume(stopped.currentVolume)], started)
         IN [spawned.audio EXCEPT !.musicProcess = spawned.proc]

\* Math.max(0, Math.min(127, volume))
ClampVolume(volume) == IF volume < 0 THEN 0 ELSE IF volume > 127 THEN 127 ELSE volume

\* setMusicVolume(volume): the volume is kept, and sent over the IPC socket
\* when music is recorded as playing.
setMusicVolume(a, volume) ==
    LET kept == [a EXCEPT !.currentVolume = ClampVolume(volume)] IN
    IF a.musicProcess = NoProcess \/ a.currentMusicName = NoName THEN kept
    ELSE [kept EXCEPT !.ipc = <<MpvVolume(ClampVolume(volume))>>]

\* proc.on("exit") and proc.on("error"): the process is gone and is removed
\* from the tracking set.
ProcessExited(a, proc) ==
    [a EXCEPT !.processes[proc].state = "exited", !.activeProcesses = @ \ {proc}]

\* The calls of the audio bridge made by the engine through its callbacks,
\* and the exit of a player process.
AudioStep(a) ==
    /\ audio' = a
    /\ UNCHANGED <<engineVars, wasmVars, hostVars, inputVars, saveVars, exited>>

InitAudio == AudioStep(initAudio(audio))

ShutdownAudio == AudioStep(shutdownAudio(audio))

PlaySound(name, volume, started) ==
    /\ Len(audio.processes) < MaxProcesses
    /\ AudioStep(playSound(audio, name, volume, started))

PlayMusic(name, looping, started) ==
    /\ Len(audio.processes) < MaxProcesses
    /\ AudioStep(playMusic(audio, name, looping, started))

StopMusic == AudioStep(stopMusic(audio))

SetMusicVolume(volume) == AudioStep(setMusicVolume(audio, volume))

ProcessExits(proc) ==
    /\ audio.processes[proc].state = "running"
    /\ AudioStep(ProcessExited(audio, proc))

(***************************************************************************)
(* The save manager (saves.ts) over the durable filesystem.  A path is a   *)
(* string; an entry of the filesystem is a regular file with its bytes or  *)
(* a directory.  Reading or writing a directory as a file throws (EISDIR), *)
(* and so does any access below a regular file (ENOTDIR).                  *)
(***************************************************************************)
\* join(homedir(), ".opentui-doom"), the home directory written ~
SAVE_DIR == <<126, 47, 46, 111, 112, 101, 110, 116, 117, 105, 45, 100, 111, 111, 109>>

S_doomsav == <<100, 111, 111, 109, 115, 97, 118>>
S_dsg == <<46, 100, 115, 103>>
S_junk_txt == <<106, 117, 110, 107, 46, 116, 120, 116>>

\* path.join of a directory and a name
join(dir, name) == dir \o <<47>> \o name

\* The name of an entry of SAVE_DIR, from its path.
NameOf(path) == SubSeq(path, Len(SAVE_DIR) + 2, Len(path))

RECURSIVE Digits(_)
\* The decimal digits of a natural number.
Digits(n) == IF n < 10 THEN <<48 + n>> ELSE Digits(n \div 10) \o <<48 + (n % 10)>>

\* `${slot}`: Number.prototype.toString of an integer
NumberToString(n) == IF n < 0 THEN <<45>> \o Digits(0 - n) ELSE Digits(n)

\* `doomsav${slot}.dsg`
SaveFileName(slot) == S_doomsav \o NumberToString(slot) \o S_dsg

\* A faulty variant: the pattern takes any digit.
MatchSaveFile_AnyDigit(file) ==
    IF /\ Len(file) = Len(S_doomsav) + 1 + Len(S_dsg)
       /\ SubSeq(file, 1, Len(S_doomsav)) = S_doomsav
       /\ file[Len(S_doomsav) + 1] >= 48 /\ file[Len(S_doomsav) + 1] <= 57
       /\ SubSeq(file, Len(S_doomsav) + 2, Len(file)) = S_dsg
    THEN <<file[Len(S_doomsav) + 1]>>
    ELSE S_empty

\* file.match(/^doomsav([0-5])\.dsg$/): the captured digit, or the empty
\* string when the name does not match.
MatchSaveFile(file) ==
    IF /\ Len(file) = Len(S_doomsav) + 1 + Len(S_dsg)
       /\ SubSeq(file, 1, Len(S_doomsav)) = S_doomsav
       /\ file[Len(S_doomsav) + 1] >= 48 /\ file[Len(S_doomsav) + 1] <= 53
       /\ SubSeq(file, Len(S_doomsav) + 2, Len(file)) = S_dsg
    THEN <<file[Len(S_doomsav) + 1]>>
    ELSE S_empty

\* parseInt(s, 10) of a string of one digit
parseInt(s) == s[1] - 48

\* new Uint8Array(data): the bytes of a Buffer
Uint8ArrayFrom(data) == [i \in 1..Len(data) |-> data[i] % 256]

File(data) == [kind |-> "file", data |-> data]
Directory == [kind |-> "dir"]

\* A filesystem: what is at SAVE_DIR ("absent", "dir" or "file") and the
\* entries of that directory, by path.
Disk(dir, entries) == [dir |-> dir, entries |-> entries]

NoEntries == [path \in {} |-> Directory]

\* One file-system call: its name and its path.
Io(op, path) == [op |-> op, path |-> path]

\* existsSync(path) for an entry of SAVE_DIR
existsSync(d, path) == d.dir = "dir" /\ path \in DOMAIN d.entries

\* readFileSync(path) throws unless path is a regular file.
CanRead(d, path) == existsSync(d, path) /\ d.entries[path].kind = "file"

\* writeFileSync(path, data) throws when SAVE_DIR is not a directory or path
\* is a directory.
CanWrite(d, path) ==
    /\ d.dir = "dir"
    /\ path \in DOMAIN d.entries => d.entries[path].kind = "file"

writeFileSync(d, path, data) ==
    [d EXCEPT !.entries = (path :> File(data)) @@ d.entries]

\* ensureSaveDir(): the directory is created when nothing is at SAVE_DIR.
ensureSaveDir(d) ==
    IF d.dir = "absent"
    THEN [disk |-> [d EXCEPT !.dir = "dir"],
          io |-> <<Io("existsSync", SAVE_DIR), Io("mkdirSync", SAVE_DIR)>>]
    ELSE [disk |-> d, io |-> <<Io("existsSync", SAVE_DIR)>>]

InvalidSlot == [threw |-> TRUE, error |-> "Invalid save slot"]

\* getSaveFilePath(slot): throws for a slot outside 0..5.
getSaveFilePath(slot) ==
    IF slot < 0 \/ slot > 5 THEN InvalidSlot
    ELSE [threw |-> FALSE, path |-> join(SAVE_DIR, SaveFileName(slot))]

\* What a call of the save manager did: whether it threw, its result, its
\* file-system calls in order, and the filesystem it left.
Done(result, io, d) == [threw |-> FALSE, result |-> result, io |-> io, disk |-> d]
Threw(io, d) == [threw |-> TRUE, result |-> "none", io |-> io, disk |-> d]

\* The value null: no array of bytes.
Null == <<0 - 1>>

\* A faulty variant: the file is written under the name of the next slot.
writeSave_NextSlot(d, slot, data) ==
    LET ensured == ensureSaveDir(d)
        filePath == getSaveFilePath(slot)
        other == join(SAVE_DIR, SaveFileName((slot + 1) % 6))
    IN  IF filePath.threw THEN Threw(ensured.io, ensured.disk)
        ELSE IF CanWrite(ensured.disk, other)
        THEN Done(TRUE, ensured.io \o <<Io("writeFileSync", other)>>,
                  writeFileSync(ensured.disk, other, data))
        ELSE Done(FALSE, ensured.io \o <<Io("writeFileSync", other)>>, ensured.disk)

\* A faulty variant: the failure of writeFileSync is not caught.
writeSave_NoCatch(d, slot, data) ==
    LET ensured == ensureSaveDir(d)
        filePath == getSaveFilePath(slot)
    IN  IF filePath.threw THEN Threw(ensured.io, ensured.disk)
        ELSE IF CanWrite(ensured.disk, filePath.path)
        THEN Done(TRUE, ensured.io \o <<Io("writeFileSync", filePath.path)>>,
                  writeFileSync(ensured.disk, filePath.path, data))
        ELSE Threw(ensured.io \o <<Io("writeFileSync", filePath.path)>>, ensured.disk)

\* writeSave(slot, data)
writeSave(d, slot, data) ==
    LET ensured == ensureSaveDir(d)
        filePath == getSaveFilePath(slot)
    IN  IF filePath.threw THEN Threw(ensured.io, ensured.disk)
        ELSE IF CanWrite(ensured.disk, filePath.path)
        THEN Done(TRUE, ensured.io \o <<Io("writeFileSync", filePath.path)>>,
                  writeFileSync(ensured.disk, filePath.path, data))
        ELSE Done(FALSE, ensured.io \o <<Io("writeFileSync", filePath.path)>>, ensured.disk)

\* saveExists(slot)
saveExists(d, slot) ==
    LET filePath == getSaveFilePath(slot) IN
    IF filePath.threw THEN Threw(<< >>, d)
    ELSE Done(existsSync(d, filePath.path), <<Io("existsSync", filePath.path)>>, d)

\* readSave(slot)
readSave(d, slot) ==
    LET filePath == getSaveFilePath(slot) IN
    IF filePath.threw THEN Threw(<< >>, d)
    ELSE IF ~existsSync(d, filePath.path)
    THEN Done(Null, <<Io("existsSync", filePath.path)>>, d)
    ELSE IF CanRead(d, filePath.path)
    THEN Done(Uint8ArrayFrom(d.entries[filePath.path].data),
              <<Io("existsSync", filePath.path), Io("readFileSync", filePath.path)>>, d)
    ELSE Done(Null, <<Io("existsSync", filePath.path), Io("readFileSync", filePath.path)>>, d)

RECURSIVE SortNames(_)
\* readdirSync lists the names in order.
SortNames(names) ==
    IF names = {} THEN << >>
    ELSE LET first == CHOOSE n \in names : \A m \in names \ {n} : StrLess(n, m)
         IN  <<first>> \o SortNames(names \ {first})

\* readdirSync(SAVE_DIR)
readdirSync(d) == SortNames({NameOf(path) : path \in DOMAIN d.entries})

NoSaves == [slot \in {} |-> << >>]

RECURSIVE LoadEach(_, _, _)
\* for (const file of files) { ... }: the Map of slots and the reads made.
LoadEach(d, files, acc) ==
    IF Len(files) = 0 THEN acc
    ELSE LET file == Head(files)
             match == MatchSaveFile(file)
             filePath == join(SAVE_DIR, file)
         IN  IF Len(match) = 0 THEN LoadEach(d, Tail(files), acc)
             ELSE IF CanRead(d, filePath)
             THEN LoadEach(d, Tail(files),
                      [saves |-> (parseInt(match) :> Uint8ArrayFrom(d.entries[filePath].data))
                                     @@ acc.saves,
                       io |-> acc.io \o <<Io("readFileSync", filePath)>>])
             ELSE LoadEach(d, Tail(files),
                      [acc EXCEPT !.io = acc.io \o <<Io("readFileSync", filePath)>>])

\* loadExistingSaves()
loadExistingSaves(d) ==
    LET ensured == ensureSaveDir(d)
        listed == ensured.io \o <<Io("readdirSync", SAVE_DIR)>>
    IN  IF ensured.disk.dir # "dir" THEN Done(NoSaves, listed, ensured.disk)
        ELSE LET loaded == LoadEach(ensured.disk, readdirSync(ensured.disk),
                                    [saves |-> NoSaves, io |-> listed])
             IN  Done(loaded.saves, loaded.io, ensured.disk)

\* The slots passed to the save manager and the blobs written.
Slots == (0 - 1)..6
TenBytes == <<68, 79, 79, 77, 32, 115, 97, 118, 101, 0>>
Blobs == {<< >>, <<255>>, TenBytes}

\* The save directories the program starts on: none; the one of the spec's
\* scenario; one with an empty save, a directory in the place of a save and
\* names that do not match; and a regular file in the place of SAVE_DIR.
ScenarioDisk ==
    Disk("dir", (join(SAVE_DIR, SaveFileName(2)) :> File(TenBytes))
                @@ (join(SAVE_DIR, S_junk_txt) :> File(<<104, 105>>)))
MixedDisk ==
    Disk("dir", (join(SAVE_DIR, SaveFileName(0)) :> File(<<1, 2>>))
                @@ (join(SAVE_DIR, SaveFileName(3)) :> Directory)
                @@ (join(SAVE_DIR, SaveFileName(5)) :> File(<< >>))
                @@ (join(SAVE_DIR, SaveFileName(6)) :> File(<<6>>))
                @@ (join(SAVE_DIR, SaveFileName(1) \o <<46, 98, 97, 107>>) :> File(<<9>>))
                @@ (join(SAVE_DIR, <<68>> \o Tail(SaveFileName(4))) :> File(<<4>>)))
InitialDisks == {Disk("absent", NoEntries), ScenarioDisk, MixedDisk, Disk("file", NoEntries)}

NoSaveCall == [op |-> "none"]

SaveCall(op, slot, data, r) ==
    [op |-> op, slot |-> slot, data |-> data, threw |-> r.threw, result |-> r.result,
     io |-> r.io, before |-> disk]

\* One call of the save manager, with what it returns and leaves on disk.
SaveManagerCall(op, slot, data, r) ==
    /\ saveOps < MaxSaveOps
    /\ saveOps' = saveOps + 1
    /\ disk' = r.disk
    /\ saveCall' = SaveCall(op, slot, data, r)
    /\ UNCHANGED <<memfs, sync, engineVars, wasmVars, hostVars, inputVars, audioVars, exited>>

CallGetSaveFilePath(slot) ==
    LET p == getSaveFilePath(slot) IN
    SaveManagerCall("getSaveFilePath", slot, << >>,
                    IF p.threw THEN Threw(<< >>, disk) ELSE Done(p.path, << >>, disk))

CallWriteSave(slot, data) == SaveManagerCall("writeSave", slot, data, writeSave(disk, slot, data))

CallSaveExists(slot) == SaveManagerCall("saveExists", slot, << >>, saveExists(disk, slot))

CallReadSave(slot) == SaveManagerCall("readSave", slot, << >>, readSave(disk, slot))

CallLoadExistingSaves ==
    SaveManagerCall("loadExistingSaves", 0, << >>, loadExistingSaves(disk))

\* "/doom" and "doom1.wad"
S_doom_dir == <<47, 100, 111, 111, 109>>
S_doom1_wad == <<100, 111, 111, 109, 49, 46, 119, 97, 100>>

\* The bytes of the game-data file read by readFile(this.wadPath).
WadBytes == <<73, 87, 65, 68>>

\* preRun: FS_createPath("/", "doom") and FS_createDataFile("/doom", "doom1.wad", wadArray)
preRun(fs, wadArray) ==
    (join(S_doom_dir, S_doom1_wad) :> File(wadArray)) @@ (S_doom_dir :> Directory) @@ fs

(***************************************************************************)
(* The save sync between the engine's private filesystem and the save      *)
(* directory, as the specification describes it (its code is not among    *)
(* the sources): for each slot 0..5 the candidate paths are probed in      *)
(* order and the first non-empty file found is handed to writeSave.        *)
(***************************************************************************)
\* The candidate directories of the private filesystem, in probing order:
\* ".", "/", "/doom", "/home", "/tmp".
CandidateDirs == <<<<46>>, S_empty, S_doom_dir, <<47, 104, 111, 109, 101>>,
                   <<47, 116, 109, 112>>>>

CandidatePath(i, slot) == join(CandidateDirs[i], SaveFileName(slot))

\* The candidate holds a file for the slot, and the file is not empty.
HoldsSave(fs, path) ==
    /\ path \in DOMAIN fs
    /\ fs[path].kind = "file"
    /\ Len(fs[path].data) > 0

RECURSIVE Probe(_, _, _, _)
\* The candidates probed for a slot, from candidate i on, and the match.
Probe(fs, slot, i, probed) ==
    IF i > Len(CandidateDirs) THEN [found |-> FALSE, probed |-> probed]
    ELSE IF HoldsSave(fs, CandidatePath(i, slot))
    THEN [found |-> TRUE, probed |-> Append(probed, CandidatePath(i, slot)),
          data |-> fs[CandidatePath(i, slot)].data]
    ELSE Probe(fs, slot, i + 1, Append(probed, CandidatePath(i, slot)))

RECURSIVE SyncSlots(_, _, _, _)
\* sync: slot after slot; a failed write does not end the run.
SyncSlots(fs, d, slot, log) ==
    IF slot > 5 THEN [disk |-> d, log |-> log]
    ELSE LET probe == Probe(fs, slot, 1, << >>) IN
         IF probe.found
         THEN LET written == writeSave(d, slot, probe.data) IN
              SyncSlots(fs, written.disk, slot + 1,
                        Append(log, [slot |-> slot, probed |-> probe.probed, wrote |-> TRUE,
                                     data |-> probe.data,
                                     ok |-> ~written.threw /\ written.result = TRUE]))
         ELSE SyncSlots(fs, d, slot + 1,
                        Append(log, [slot |-> slot, probed |-> probe.probed, wrote |-> FALSE,
                                     data |-> << >>, ok |-> FALSE]))

NoSync == [runs |-> 0, engineSaves |-> 0]

\* One run of the save sync.
Sync ==
    /\ sync.runs < MaxSyncs
    /\ LET run == SyncSlots(memfs, disk, 0, << >>) IN
       /\ disk' = run.disk
       /\ sync' = [runs |-> sync.runs + 1, engineSaves |-> sync.engineSaves,
                   log |-> run.log, fs |-> memfs, before |-> disk]
    /\ UNCHANGED <<memfs, saveCall, saveOps, engineVars, wasmVars, hostVars, inputVars,
                   audioVars, exited>>

\* The engine saves the game: it writes the file of a slot into its private
\* filesystem, under one of the directories it may be configured to use.
EngineSaves(i, slot, data) ==
    /\ sync.engineSaves < MaxEngineSaves
    /\ memfs' = (CandidatePath(i, slot) :> File(data)) @@ memfs
    /\ sync' = [sync EXCEPT !.engineSaves = sync.engineSaves + 1]
    /\ UNCHANGED <<disk, saveCall, saveOps, engineVars, wasmVars, hostVars, inputVars,
                   audioVars, exited>>

\* Private filesystems the sync starts on: the game data alone; and one with
\* slot 0 empty in the first candidate and saved in the third, slot 2 saved
\* in the second and, differently, in the fourth, slot 3 in the first, slot
\* 5 in the last only.
LoadedFs == preRun(NoEntries, WadBytes)
SavedFs ==
    (CandidatePath(1, 0) :> File(<< >>)) @@ (CandidatePath(3, 0) :> File(<<10, 11>>))
    @@ (CandidatePath(2, 2) :> File(<<20>>)) @@ (CandidatePath(4, 2) :> File(<<21, 22>>))
    @@ (CandidatePath(1, 3) :> File(<<30>>))
    @@ (CandidatePath(5, 5) :> File(<<50, 51, 52>>))
    @@ LoadedFs
InitialFs == {LoadedFs, SavedFs}

\* Nothing is on disk or in the private filesystem and no audio is set up.
InitSideVars ==
    /\ disk = Disk("absent", NoEntries)
    /\ memfs = NoEntries
    /\ saveCall = NoSaveCall
    /\ saveOps = 0
    /\ sync = NoSync
    /\ audio = AudioIdle
    /\ exited = FALSE

InitInputVars ==
    /\ keyStates = [k \in KeyIds |-> FALSE]
    /\ keyTimers = [k \in KeyIds |-> 0]
    /\ timers = {}
    /\ nextTimer = 1
    /\ now = 0
    /\ noteLog = << >>
    /\ pushLog = << >>
    /\ exitCalls = 0
    /\ mouse = MouseIdle
    /\ mouseLog = << >>

\* The engine is loaded and running and no input has arrived.
InitRunning ==
    /\ module = TRUE
    /\ initialized = TRUE
    /\ frameBufferPtr = SCREEN_ADDR
    /\ loadPc = "done"
    /\ dg = EmptyQueue
    /\ created = TRUE
    /\ nTicks = 0
    /\ nPush = 0
    /\ seen = << >>
    /\ quitDelivered = FALSE
    /\ screen = FirstFrame
    /\ host = HostRunning
    /\ lastCall = NoCall
    /\ ops = 0
    /\ InitInputVars

InitInput == InitRunning /\ InitSideVars

NextInput ==
    \/ \E key \in KeyEvents : KeyNotify(key)
    \/ FireTimer
    \/ AdvanceTime

SpecInput == InitInput /\ [][NextInput]_vars

\* The Home key with and without Shift: one key id, mapped only with Shift.
HomeKeys == {K_home, K_shift_home, K_x}

NextHome ==
    \/ \E key \in HomeKeys : KeyNotify(key)
    \/ FireTimer
    \/ AdvanceTime

SpecHome == InitInput /\ [][NextHome]_vars

NextMovement ==
    \/ \E key \in MovementKeyEvents : KeyNotify(key)
    \/ FireTimer
    \/ AdvanceTime

SpecMovement == InitInput /\ [][NextMovement]_vars

(***************************************************************************)
(* The mouse handler attached to an engine whose load has completed.       *)
(***************************************************************************)
\* Mouse movement and the timers it sets.
NextMouse ==
    \/ \E x \in MouseXs : MouseMove(x)
    \/ MouseTimerFires
    \/ ClockTick(MaxMouseTime)

SpecMouse == InitInput /\ [][NextMouse]_vars

MaxInputs == 4

\* Fewer than MaxInputs notifications, of keys and mouse together, so far.
MoreInputs == Len(noteLog) + Len(mouseLog) < MaxInputs

\* Mouse movement, buttons and resets.
NextPointer ==
    \/ MoreInputs /\ \E x \in MouseXs : MouseMove(x)
    \/ MoreInputs /\ \E button \in Buttons : MouseDown(button)
    \/ MoreInputs /\ \E button \in Buttons : MouseUp(button)
    \/ MoreInputs /\ MouseReset
    \/ MouseTimerFires
    \/ ClockTick(MaxMouseTime)

SpecPointer == InitInput /\ [][NextPointer]_vars

\* The keyboard bridge and the mouse handler on one engine: a confirmation
\* key, the key with the largest mapped code, and the mouse.
NextControls ==
    \/ MoreInputs /\ \E key \in ControlKeys : KeyNotify(key)
    \/ FireTimer
    \/ MoreInputs /\ \E x \in MouseXs : MouseMove(x)
    \/ MoreInputs /\ \E button \in Buttons : MouseDown(button)
    \/ MoreInputs /\ \E button \in Buttons : MouseUp(button)
    \/ MouseTimerFires
    \/ ClockTick(MaxMouseTime)

SpecControls == InitInput /\ [][NextControls]_vars


(***************************************************************************)
(* The save manager called on any of the save directories.                 *)
(***************************************************************************)
InitSaves ==
    /\ InitRunning
    /\ disk \in InitialDisks
    /\ memfs = NoEntries
    /\ saveCall = NoSaveCall
    /\ saveOps = 0
    /\ sync = NoSync
    /\ audio = AudioIdle
    /\ exited = FALSE

NextSaves ==
    \/ \E slot \in Slots : CallGetSaveFilePath(slot)
    \/ \E slot \in Slots, data \in Blobs : CallWriteSave(slot, data)
    \/ \E slot \in Slots : CallSaveExists(slot)
    \/ \E slot \in Slots : CallReadSave(slot)
    \/ CallLoadExistingSaves

SpecSaves == InitSaves /\ [][NextSaves]_vars

(***************************************************************************)
(* The save sync of a running engine that saves now and then.              *)
(***************************************************************************)
InitSync ==
    /\ InitRunning
    /\ disk \in InitialDisks
    /\ memfs \in InitialFs
    /\ saveCall = NoSaveCall
    /\ saveOps = 0
    /\ sync = NoSync
    /\ audio = AudioIdle
    /\ exited = FALSE

NextSync ==
    \/ Sync
    \/ \E i \in {1, 3}, slot \in {0, 2, 4}, data \in {<< >>, <<255>>} : EngineSaves(i, slot, data)

SpecSync == InitSync /\ [][NextSync]_vars

(***************************************************************************)
(* Properties of the keyboard bridge.                                      *)
(***************************************************************************)
Last(seq) == seq[Len(seq)]

\* The notification maps to at least one code and is not Ctrl+C.
IsMapped(n) == ~IsCtrlC(n.key) /\ Len(mapKeyToDoom(n.key)) > 0

IsConfirmNote(n) == IsMapped(n) /\ isMenuConfirmKey(toLowerCase(n.key.name))

IsOrdinaryNote(n) == IsMapped(n) /\ ~isMenuConfirmKey(toLowerCase(n.key.name))

\* What the engine was sent on behalf of notification m: (pressed, code, time,
\* reached _DG_PushKeyEvent), in the order sent.
EventsOf(m) ==
    LET sel == SelectSeq(pushLog, LAMBDA e : e.note = m) IN
    [i \in 1..Len(sel) |-> <<sel[i].pressed, sel[i].key, sel[i].at, sel[i].forwarded>>]

\* One event per code, in the order of the codes.
EventsFor(pressed, codes, at) == [i \in 1..Len(codes) |-> <<pressed, codes[i], at, TRUE>>]

TimerPendingOf(m) == \E t \in timers : t.note = m

\* C1: every key identifier has at most one outstanding release timer, after
\* any sequence of key notifications and timer firings, y and n included.
C1_OneTimerPerKey ==
    \A k \in KeyIds : Cardinality({t \in timers : t.keyId = k}) <= 1

\* No later notification for the key of notification m arrived within 300 ms.
QuietAfter(m) ==
    \A j \in (m + 1)..Len(noteLog) :
        noteLog[j].keyId = noteLog[m].keyId => noteLog[j].at > noteLog[m].at + KEY_RELEASE_DELAY

\* C2: one notification for a released ordinary key K that maps to codes,
\* with no further notification for K for 300 ms, sends the engine exactly one
\* press per code and then exactly one release per code, 300 ms later.
C2_SinglePressOneRelease ==
    \A m \in 1..Len(noteLog) :
        LET n == noteLog[m]
            codes == mapKeyToDoom(n.key)
        IN  (IsOrdinaryNote(n) /\ ~n.wasPressed /\ QuietAfter(m)
                /\ now >= n.at + KEY_RELEASE_DELAY /\ ~TimerPendingOf(m))
            => EventsOf(m) = EventsFor(TRUE, codes, n.at)
                             \o EventsFor(FALSE, codes, n.at + KEY_RELEASE_DELAY)

\* The case of C2 has happened for the two codes of W.
C2_Witness ==
    \E m \in 1..Len(noteLog) :
        /\ noteLog[m].key = K_w
        /\ ~noteLog[m].wasPressed
        /\ QuietAfter(m)
        /\ now >= noteLog[m].at + KEY_RELEASE_DELAY
        /\ ~TimerPendingOf(m)
        /\ Len(EventsOf(m)) = 4

\* C3: every notification for a confirmation key sends the engine a press per
\* code at once and, 50 ms later, a release per code, whether or not the key
\* was marked pressed when the notification arrived.
C3_ConfirmPressThenRelease ==
    \A m \in 1..Len(noteLog) :
        LET n == noteLog[m]
            codes == mapKeyToDoom(n.key)
        IN  IsConfirmNote(n) =>
            IF TimerPendingOf(m)
            THEN /\ now <= n.at + CONFIRM_RELEASE_DELAY
                 /\ EventsOf(m) = EventsFor(TRUE, codes, n.at)
            ELSE EventsOf(m) = EventsFor(TRUE, codes, n.at)
                               \o EventsFor(FALSE, codes, n.at + CONFIRM_RELEASE_DELAY)

\* A confirmation key notified while marked pressed has had its press and its release.
C3_Witness ==
    \E m \in 1..Len(noteLog) :
        /\ IsConfirmNote(noteLog[m])
        /\ noteLog[m].wasPressed
        /\ ~TimerPendingOf(m)
        /\ Len(EventsOf(m)) = 2

\* A notification for an ordinary key that is marked pressed: nothing is sent,
\* the pending release timer is cancelled and a new one of 300 ms is scheduled.
C4_Repress ==
    Len(noteLog') = Len(noteLog) + 1 =>
        LET n == Last(noteLog')
            k == n.keyId
        IN  (IsOrdinaryNote(n) /\ n.wasPressed) =>
            /\ pushLog' = pushLog
            /\ nPush' = nPush
            /\ dg' = dg
            /\ \E t \in timers : t.id = keyTimers[k] /\ t.keyId = k
            /\ \A t \in timers' : t.id # keyTimers[k]
            /\ \E t \in timers' :
                  /\ t.id = keyTimers'[k]
                  /\ t.due = now + KEY_RELEASE_DELAY
                  /\ \A u \in timers' : u.keyId = k => u = t

\* A release of an ordinary key comes from the timer of the latest
\* notification for that key, 300 ms or more after it.
C4_NoEarlyRelease ==
    \A i \in 1..Len(pushLog) :
        LET e == pushLog[i] IN
        (~e.pressed /\ IsOrdinaryNote(noteLog[e.note])) =>
            /\ e.at >= noteLog[e.note].at + KEY_RELEASE_DELAY
            /\ \A j \in (e.note + 1)..Len(noteLog) :
                  noteLog[j].keyId = e.src => noteLog[j].at >= e.at

\* C4: a notification for an ordinary key already pressed sends no press,
\* cancels the pending release timer and schedules a new 300 ms one; while the
\* notifications keep coming less than 300 ms apart no release is sent.
C4_RepressResetsTimer == [][C4_Repress /\ C4_NoEarlyRelease']_vars

\* A pressed ordinary key was notified again and released by the later timer.
C4_Witness ==
    \E m \in 1..Len(noteLog) :
        /\ IsOrdinaryNote(noteLog[m])
        /\ noteLog[m].wasPressed
        /\ \E i \in 1..Len(pushLog) : pushLog[i].note = m /\ ~pushLog[i].pressed


(***************************************************************************)
(* The engine adapter: DoomEngine.tick, getFrameBuffer, init.              *)
(***************************************************************************)
\* One turn of the loop of I_GetEvent: while (DG_GetKey(&pressed, &key)) { post the event }
DrainStep(st) ==
    IF st.done THEN st
    ELSE LET r == DG_GetKey(st.q, 0, 0) IN
         IF r.ret = 0 THEN [st EXCEPT !.done = TRUE]
         ELSE [st EXCEPT !.q = r.q,
                         !.events = Append(st.events, [pressed |-> r.pressed, key |-> r.key,
                                                       tick |-> st.tick])]

\* The second half of the turns, when the first has not ended the loop.
RECURSIVE DrainTurns(_, _)
DrainRest(half, n) == IF half.done THEN half ELSE DrainTurns(half, n)

\* Up to n turns of that loop (split in halves to keep the evaluation shallow).
DrainTurns(st, n) ==
    IF n <= 1 THEN DrainStep(st)
    ELSE DrainRest(DrainTurns(st, n \div 2), n - (n \div 2))

\* The loop run to its end by tick number t: the queue holds fewer than
\* KEY_QUEUE_SIZE events.
DrainKeys(q, t) ==
    DrainTurns([q |-> q, events |-> << >>, done |-> FALSE, tick |-> t], KEY_QUEUE_SIZE)

\* The engine takes over what a tick dequeued.
TickTakes(d, quit, frame) ==
    /\ dg' = d.q
    /\ seen' = seen \o d.events
    /\ nTicks' = nTicks + 1
    /\ screen' = frame
    /\ quitDelivered' = (quitDelivered \/ quit)

\* _doomgeneric_Tick: the engine reads every waiting key event, advances one
\* frame, draws `frame`, and may deliver its quit request (Module.quitGame).
doomgeneric_Tick(quit, frame) == TickTakes(DrainKeys(dg, nTicks + 1), quit, frame)

\* A member of this.module is used while this.module is null: a TypeError.
NullModuleUse == ~NotReady(module, initialized) /\ ~module

\* DoomEngine.tick()
tick(quit, frame) ==
    IF NotReady(module, initialized) \/ NullModuleUse
    THEN UNCHANGED <<dg, seen, nTicks, screen, quitDelivered>>
    ELSE doomgeneric_Tick(quit, frame)

\* new Uint8Array(n): n bytes, all zero.
NewUint8Array(n) == [length |-> n, fill |-> "zero"]

\* Memory of the module outside the screen buffer: not the engine's frame.
OtherWord(addr) == addr % 251

\* module.getValue(addr, 'i32') with `frame` in the screen buffer.
getValue(frame, addr) ==
    IF /\ addr >= SCREEN_ADDR
       /\ addr < SCREEN_ADDR + DOOM_WIDTH * DOOM_HEIGHT * 4
       /\ (addr - SCREEN_ADDR) % 4 = 0
    THEN ScreenWord(frame, (addr - SCREEN_ADDR) \div 4)
    ELSE OtherWord(addr)

\* The loop of getFrameBuffer: word i of the frame at `base`, decoded.
DecodedFrame(frame, base) ==
    [length |-> DOOM_WIDTH * DOOM_HEIGHT * 4, fill |-> "rgba", frame |-> frame, base |-> base]

\* A faulty variant: the word is read as ABGR, red and blue exchanged.
ByteAt_SwapRB(buf, off) ==
    IF buf.fill = "zero" THEN 0
    ELSE LET argb == getValue(buf.frame, buf.base + (off \div 4) * 4) IN
         CASE off % 4 = 0 -> argb % 256
           [] off % 4 = 1 -> (argb \div 256) % 256
           [] off % 4 = 2 -> (argb \div 65536) % 256
           [] OTHER -> 255

\* buffer[off] of a buffer getFrameBuffer returned.
ByteAt(buf, off) ==
    IF buf.fill = "zero" THEN 0
    ELSE LET argb == getValue(buf.frame, buf.base + (off \div 4) * 4) IN
         CASE off % 4 = 0 -> (argb \div 65536) % 256
           [] off % 4 = 1 -> (argb \div 256) % 256
           [] off % 4 = 2 -> argb % 256
           [] OTHER -> 255

\* A faulty variant: one byte per pixel before initialization.
getFrameBuffer_PixelsOnly ==
    IF ~module \/ ~initialized
    THEN [length |-> DOOM_WIDTH * DOOM_HEIGHT, fill |-> "zero"]
    ELSE [length |-> DOOM_WIDTH * DOOM_HEIGHT * 4, fill |-> "rgba", frame |-> screen,
          base |-> frameBufferPtr]

\* DoomEngine.getFrameBuffer()
getFrameBuffer ==
    IF NotReady(module, initialized)
    THEN NewUint8Array(DOOM_WIDTH * DOOM_HEIGHT * 4)
    ELSE DecodedFrame(screen, frameBufferPtr)

\* What is recorded of an adapter call: the engine's state when it was made,
\* whether it threw, and what it returned.
Call(op, threw, result) ==
    [op |-> op, module |-> module, initialized |-> initialized, pc |-> loadPc,
     threw |-> threw, result |-> result]

NoResult == [length |-> 0, fill |-> "none"]

(***************************************************************************)
(* Calls of the adapter's operations, possible as soon as the DoomEngine   *)
(* object exists.                                                          *)
(***************************************************************************)
\* The key events callers push in this model.
ApiEvents == {<<TRUE, KEY_UPARROW>>, <<FALSE, KEY_UPARROW>>, <<TRUE, 121>>}

ApiTick ==
    /\ host.doomEngine
    /\ ops < MaxOps
    /\ ops' = ops + 1
    /\ \E quit \in BOOLEAN, frame \in Frames : tick(quit, frame)
    /\ lastCall' = Call("tick", NullModuleUse, NoResult)
    /\ UNCHANGED <<engineVars, created, nPush, host, inputVars, sideVars>>

ApiPushKey ==
    /\ host.doomEngine
    /\ ops < MaxOps
    /\ ops' = ops + 1
    /\ \E ev \in ApiEvents :
          LET w == CallPushKey(World, "api", 0, ev[1], ev[2]) IN
          /\ dg' = w.dg
          /\ nPush' = w.nPush
          /\ pushLog' = w.log
    /\ lastCall' = Call("pushKey", NullModuleUse, NoResult)
    /\ UNCHANGED <<engineVars, created, nTicks, seen, quitDelivered, screen, host>>
    /\ UNCHANGED <<keyStates, keyTimers, timers, nextTimer, now, noteLog, exitCalls,
                   mouseVars, sideVars>>

ApiGetFrameBuffer ==
    /\ host.doomEngine
    /\ ops < MaxOps
    /\ ops' = ops + 1
    /\ lastCall' = Call("getFrameBuffer", NullModuleUse, getFrameBuffer)
    /\ UNCHANGED <<engineVars, wasmVars, host, inputVars, sideVars>>

(***************************************************************************)
(* The blit of gameLoop: the decoded frame sampled into the cell grid.     *)
(***************************************************************************)
\* The glyph of every cell the blit writes, the upper half block.
HALF_BLOCK == "upper half block"

\* pixels[i] ?? 0
PixelByte(pixels, i) == IF i >= 0 /\ i < pixels.length THEN ByteAt(pixels, i) ELSE 0

\* RGBA.fromInts(pixels[srcIdx] ?? 0, pixels[srcIdx + 1] ?? 0, pixels[srcIdx + 2] ?? 0)
ColourAt(pixels, srcIdx) ==
    <<PixelByte(pixels, srcIdx), PixelByte(pixels, srcIdx + 1), PixelByte(pixels, srcIdx + 2)>>

\* const scaleX = DOOM_WIDTH / fb.width
scaleX(width) == Divide(DOOM_WIDTH, width)

\* A faulty variant: the scale of a cell that shows one source row, not two.
scaleY_OneRow(height) == Divide(DOOM_HEIGHT, height)

\* const scaleY = DOOM_HEIGHT / (fb.height * 2)
scaleY(height) == Divide(DOOM_HEIGHT, height * 2)

\* const srcX = Math.floor(x * scaleX)
srcX(x, width) == Math_floor(Multiply(x, scaleX(width)))

\* const srcY1 = Math.floor(y * 2 * scaleY)
srcY1(y, height) == Math_floor(Multiply(y * 2, scaleY(height)))

\* const srcY2 = Math.floor((y * 2 + 1) * scaleY)
srcY2(y, height) == Math_floor(Multiply(y * 2 + 1, scaleY(height)))

\* What fb.setCell(x, y, ...) is given for the cell (x, y) of a width x height grid.
setCell(pixels, width, height, x, y) ==
    LET sx == srcX(x, width) IN
    [glyph |-> HALF_BLOCK,
     fg |-> ColourAt(pixels, (srcY1(y, height) * DOOM_WIDTH + sx) * 4),
     bg |-> ColourAt(pixels, (srcY2(y, height) * DOOM_WIDTH + sx) * 4)]

\* A faulty variant: the size of the first blit is kept for the later ones.
Blit_KeepsFirstSize(pixels, fb) ==
    IF fb.cells.kind = "blit"
    THEN [kind |-> "blit", pixels |-> pixels, width |-> fb.cells.width, height |-> fb.cells.height]
    ELSE [kind |-> "blit", pixels |-> pixels, width |-> fb.width, height |-> fb.height]

\* A faulty variant: cells are recorded as written whatever the size of the grid.
Blit_NoSizeTest(pixels, fb) ==
    [kind |-> "blit", pixels |-> pixels, width |-> fb.width, height |-> fb.height]

\* The cells after the two loops of gameLoop: every cell (x, y) with
\* y < fb.height and x < fb.width has been set; a grid without rows or
\* without columns has had no cell set.
Blit(pixels, fb) ==
    IF fb.height > 0 /\ fb.width > 0
    THEN [kind |-> "blit", pixels |-> pixels, width |-> fb.width, height |-> fb.height]
    ELSE fb.cells

\* Number of fb.setCell calls the two loops make.
BlitWrites(fb) == fb.height * fb.width

\* The cell (x, y) of the grid.
CellAt(fb, x, y) ==
    IF fb.cells.kind = "blit"
    THEN setCell(fb.cells.pixels, fb.cells.width, fb.cells.height, x, y)
    ELSE [glyph |-> "unwritten"]

\* A faulty variant: the frame is read before the engine is advanced.
FrameRead_BeforeTick(before, after) == before

\* doomEngine.getFrameBuffer() follows doomEngine.tick(): the screen it
\* decodes is the one the tick has left.
FrameRead(before, after) == after

\* What is recorded of a frame callback: the pixels it read, the number of
\* cells it set and the cells it found.
FrameCall(pixels, setCells) ==
    [op |-> "gameLoop", module |-> module, initialized |-> initialized, pc |-> loadPc,
     threw |-> NullModuleUse, result |-> pixels, setCells |-> setCells,
     before |-> host.fb.cells]

\* gameLoop, the frame callback of the host.
GameLoop ==
    /\ host.frameCallback
    /\ ops < MaxOps
    /\ ops' = ops + 1
    /\ IF ~host.doomEngine \/ ~host.framebufferRenderable
       THEN /\ lastCall' = FrameCall(NoResult, 0)
            /\ UNCHANGED <<dg, seen, nTicks, screen, quitDelivered, host>>
       ELSE /\ \E quit \in BOOLEAN, frame \in Frames : tick(quit, frame)
            /\ LET pixels == IF NotReady(module, initialized)
                             THEN NewUint8Array(DOOM_WIDTH * DOOM_HEIGHT * 4)
                             ELSE DecodedFrame(FrameRead(screen, screen'), frameBufferPtr)
               IN /\ host' = [host EXCEPT !.fb.cells = Blit(pixels, host.fb)]
                  /\ lastCall' = FrameCall(pixels, BlitWrites(host.fb))
    /\ UNCHANGED <<engineVars, created, nPush, inputVars, sideVars>>

\* The resize handler: the terminal has a new size, and the frame buffer of
\* the renderable, when there is one, is resized to it.  What frameBuffer.resize
\* leaves in the cells is the renderer's business: they may be cleared, or
\* still hold what the last blit wrote for the old size.
ResizeAmong(sizes) ==
    /\ \E size \in sizes \ {host.terminal} :
       \E left \in {Unwritten, host.fb.cells} :
          host' = [host EXCEPT !.terminal = size,
                               !.fb = IF host.framebufferRenderable
                                      THEN [Grid(size[1], size[2]) EXCEPT !.cells = left,
                                                                          !.resized = TRUE]
                                      ELSE @]
    /\ UNCHANGED <<engineVars, wasmVars, lastCall, ops, inputVars, sideVars>>

Resize == ResizeAmong(TerminalSizes)

(***************************************************************************)
(* The load: initDoom of the host and DoomEngine.init.                     *)
(***************************************************************************)
HostIdle ==
    [doomEngine |-> FALSE, framebufferRenderable |-> FALSE, inputHandler |-> FALSE,
     frameCallback |-> FALSE, error |-> FALSE,
     terminal |-> DefaultTerminal, fb |-> Grid(0, 0)]

\* initDoom(): doomEngine = new DoomEngine(wad); init() starts reading the WAD.
HostInitDoom ==
    /\ loadPc = "new"
    /\ ~host.doomEngine
    /\ host' = [host EXCEPT !.doomEngine = TRUE]
    /\ loadPc' = "readFile"
    /\ UNCHANGED <<module, initialized, frameBufferPtr, wasmVars, lastCall, ops, inputVars, sideVars>>

\* init() fails at one of its awaits; the catch of initDoom shows the error.
LoadFails ==
    /\ loadPc \in {"readFile", "import", "createModule"}
    /\ loadPc' = "failed"
    /\ host' = [host EXCEPT !.error = TRUE]
    /\ UNCHANGED <<module, initialized, frameBufferPtr, wasmVars, lastCall, ops, inputVars, sideVars>>

\* await readFile(this.wadPath) returns; require(doomJsPath); import of the audio module starts.
ReadFileDone ==
    /\ loadPc = "readFile"
    /\ loadPc' = "import"
    /\ UNCHANGED <<module, initialized, frameBufferPtr, wasmVars, hostVars, sideVars, inputVars>>

\* await import("./doom-audio") returns; createDoomModule(moduleConfig) starts.
ImportDone ==
    /\ loadPc = "import"
    /\ loadPc' = "createModule"
    /\ UNCHANGED <<module, initialized, frameBufferPtr, wasmVars, hostVars, sideVars, inputVars>>

\* A faulty variant: initialized is set before this.initDoom() has run.
ModuleCreated_InitEarly(createReturns) ==
    /\ loadPc = "createModule"
    /\ module' = TRUE
    /\ initialized' = TRUE
    /\ IF createReturns
       THEN /\ created' = TRUE
            /\ screen' = FirstFrame
            /\ frameBufferPtr' = SCREEN_ADDR
            /\ loadPc' = "done"
            /\ host' = host
       ELSE /\ loadPc' = "failed"
            /\ host' = [host EXCEPT !.error = TRUE]
            /\ UNCHANGED <<created, screen, frameBufferPtr>>
    /\ memfs' = preRun(memfs, WadBytes)
    /\ UNCHANGED <<dg, nTicks, nPush, seen, quitDelivered, lastCall, ops, inputVars>>
    /\ UNCHANGED <<disk, saveCall, saveOps, sync, audioVars, exited>>

\* await createDoomModule(...) runs preRun and returns the module, this.initDoom() runs
\* _doomgeneric_Create (which returns, or throws when the engine aborts), the
\* frame buffer pointer is fetched and initialized is set.
ModuleCreated(createReturns) ==
    /\ loadPc = "createModule"
    /\ module' = TRUE
    /\ IF createReturns
       THEN /\ created' = TRUE
            /\ screen' = FirstFrame
            /\ frameBufferPtr' = SCREEN_ADDR
            /\ initialized' = TRUE
            /\ loadPc' = "done"
            /\ host' = host
       ELSE /\ loadPc' = "failed"
            /\ host' = [host EXCEPT !.error = TRUE]
            /\ UNCHANGED <<created, screen, frameBufferPtr, initialized>>
    /\ memfs' = preRun(memfs, WadBytes)
    /\ UNCHANGED <<dg, nTicks, nPush, seen, quitDelivered, lastCall, ops, inputVars>>
    /\ UNCHANGED <<disk, saveCall, saveOps, sync, audioVars, exited>>

\* A faulty variant: the renderable and the callbacks are installed whether
\* or not init() threw.
HostLoaded_AfterFailure ==
    /\ loadPc \in {"done", "failed"}
    /\ ~host.frameCallback
    /\ host' = [host EXCEPT !.framebufferRenderable = TRUE, !.inputHandler = TRUE,
                            !.frameCallback = TRUE,
                            !.fb = Grid(host.terminal[1], host.terminal[2])]
    /\ UNCHANGED <<engineVars, wasmVars, lastCall, ops, inputVars, sideVars>>

\* initDoom() after the await: the frame buffer renderable, the input
\* handler and the frame callback are installed.
HostLoaded ==
    /\ loadPc = "done"
    /\ ~host.frameCallback
    /\ host' = [host EXCEPT !.framebufferRenderable = TRUE, !.inputHandler = TRUE,
                            !.frameCallback = TRUE,
                            !.fb = Grid(host.terminal[1], host.terminal[2])]
    /\ UNCHANGED <<engineVars, wasmVars, lastCall, ops, inputVars, sideVars>>

\* Nothing has been loaded and no input has arrived.
InitNew ==
    /\ module = FALSE
    /\ initialized = FALSE
    /\ frameBufferPtr = 0
    /\ loadPc = "new"
    /\ dg = EmptyQueue
    /\ created = FALSE
    /\ nTicks = 0
    /\ nPush = 0
    /\ seen = << >>
    /\ quitDelivered = FALSE
    /\ screen = Uniform(0)
    /\ host = HostIdle
    /\ lastCall = NoCall
    /\ ops = 0
    /\ InitInputVars

Init == InitNew /\ InitSideVars

Next ==
    \/ HostInitDoom
    \/ ReadFileDone
    \/ ImportDone
    \/ \E createReturns \in BOOLEAN : ModuleCreated(createReturns)
    \/ LoadFails
    \/ HostLoaded
    \/ ApiTick
    \/ ApiPushKey
    \/ ApiGetFrameBuffer
    \/ GameLoop

Spec == Init /\ [][Next]_vars

(***************************************************************************)
(* The load, started beside any of the save directories, and the ticks     *)
(* that follow it.                                                         *)
(***************************************************************************)
InitLoad ==
    /\ InitNew
    /\ disk \in InitialDisks
    /\ memfs = NoEntries
    /\ saveCall = NoSaveCall
    /\ saveOps = 0
    /\ sync = NoSync
    /\ audio = AudioIdle
    /\ exited = FALSE

NextLoad ==
    \/ HostInitDoom
    \/ ReadFileDone
    \/ ImportDone
    \/ \E createReturns \in BOOLEAN : ModuleCreated(createReturns)
    \/ LoadFails
    \/ HostLoaded
    \/ ApiTick
    \/ GameLoop

SpecLoad == InitLoad /\ [][NextLoad]_vars

(***************************************************************************)
(* The audio bridge under the calls of a running engine.                   *)
(***************************************************************************)
InitAudioBridge == InitRunning /\ InitSideVars

NextAudio ==
    \/ InitAudio
    \/ ShutdownAudio
    \/ \E started \in BOOLEAN : PlaySound("pistol", 127, started)
    \/ \E name \in {"e1m1", "e1m2"}, looping \in BOOLEAN, started \in BOOLEAN :
          PlayMusic(name, looping, started)
    \/ StopMusic
    \/ \E volume \in {0 - 5, 200} : SetMusicVolume(volume)
    \/ \E proc \in 1..Len(audio.processes) : ProcessExits(proc)

SpecAudio == InitAudioBridge /\ [][NextAudio]_vars

(***************************************************************************)
(* The host over a run of some seconds, up to the exit of the process.     *)
(***************************************************************************)
\* "Saves are automatically synced every 5 seconds and on exit."
SYNC_INTERVAL == 5000

\* A second passes while the tick loop is installed; the time of this run is
\* counted from the start of the tick loop.
SecondPasses ==
    /\ host.frameCallback
    /\ now + 1000 <= MaxRunTime
    /\ now' = now + 1000
    /\ UNCHANGED <<keyStates, keyTimers, timers, nextTimer, noteLog, pushLog, exitCalls,
                   mouseVars>>
    /\ UNCHANGED <<engineVars, wasmVars, hostVars, saveVars, audioVars, exited>>

\* Ctrl+C with exitOnCtrlC: true: the renderer ends the process.  The host
\* registers nothing that runs at exit.
ExitOnCtrlC ==
    /\ exited' = TRUE
    /\ UNCHANGED <<engineVars, wasmVars, hostVars, inputVars, saveVars, audioVars>>

InitHost ==
    /\ InitNew
    /\ disk \in {ScenarioDisk, MixedDisk}
    /\ memfs = NoEntries
    /\ saveCall = NoSaveCall
    /\ saveOps = 0
    /\ sync = NoSync
    /\ audio = AudioIdle
    /\ exited = FALSE

\* Nothing of the program runs once the process has exited.
NextHost ==
    \/ ~exited /\ HostInitDoom
    \/ ~exited /\ ReadFileDone
    \/ ~exited /\ ImportDone
    \/ ~exited /\ \E createReturns \in BOOLEAN : ModuleCreated(createReturns)
    \/ ~exited /\ LoadFails
    \/ ~exited /\ HostLoaded
    \/ ~exited /\ GameLoop
    \/ ~exited /\ SecondPasses
    \/ ~exited /\ ExitOnCtrlC

SpecHost == InitHost /\ [][NextHost]_vars

(***************************************************************************)
(* The frame loop of a loaded engine, in a terminal of any of the sizes.   *)
(***************************************************************************)
InitBlit ==
    /\ module = TRUE
    /\ initialized = TRUE
    /\ frameBufferPtr = SCREEN_ADDR
    /\ loadPc = "done"
    /\ dg = EmptyQueue
    /\ created = TRUE
    /\ nTicks = 0
    /\ nPush = 0
    /\ seen = << >>
    /\ quitDelivered = FALSE
    /\ screen = FirstFrame
    /\ \E size \in TerminalSizes :
          host = [HostRunning EXCEPT !.terminal = size, !.fb = Grid(size[1], size[2])]
    /\ lastCall = NoCall
    /\ ops = 0
    /\ InitInputVars
    /\ InitSideVars

NextBlit ==
    \/ GameLoop
    \/ Resize

SpecBlit == InitBlit /\ [][NextBlit]_vars

\* Grids of every shape: one cell, the default, one whose scale factors are not
\* exact in binary, one taller than wide, and grids with more columns than the
\* source has columns and more rows than half the source's rows.
GridSizes == {<<1, 1>>, DefaultTerminal, <<154, 97>>, <<3, 7>>, <<1281, 401>>, <<1300, 450>>}

InitGrid ==
    /\ module = TRUE
    /\ initialized = TRUE
    /\ frameBufferPtr = SCREEN_ADDR
    /\ loadPc = "done"
    /\ dg = EmptyQueue
    /\ created = TRUE
    /\ nTicks = 0
    /\ nPush = 0
    /\ seen = << >>
    /\ quitDelivered = FALSE
    /\ screen = FirstFrame
    /\ \E size \in GridSizes :
          host = [HostRunning EXCEPT !.terminal = size, !.fb = Grid(size[1], size[2])]
    /\ lastCall = NoCall
    /\ ops = 0
    /\ InitInputVars
    /\ InitSideVars

ResizeGrid == ResizeAmong(GridSizes)

NextGrid ==
    \/ GameLoop
    \/ ResizeGrid

SpecGrid == InitGrid /\ [][NextGrid]_vars

(***************************************************************************)
(* The key queue between pushKey and tick, started from queues that are    *)
(* empty or nearly full, anywhere in the ring.                             *)
(***************************************************************************)
\* Event i (from 0) of a pre-filled queue: presses and releases of one key.
Prefill(i) == [pressed |-> (i + 1) % 2, key |-> KEY_UPARROW]

\* The queue after n accepted pushes of Prefill(0..n-1), the read index at r.
PrefilledQueue(r, n) ==
    [key_queue |-> [s \in {(r + i) % KEY_QUEUE_SIZE : i \in 0..(n - 1)} |->
                       Prefill((s - r + KEY_QUEUE_SIZE) % KEY_QUEUE_SIZE)],
     key_queue_read |-> r,
     key_queue_write |-> (r + n) % KEY_QUEUE_SIZE]

\* The calls of pushKey that filled it.
PrefillCalls(n) ==
    [i \in 1..n |-> [src |-> "api", note |-> 0, pressed |-> Prefill(i - 1).pressed = 1,
                     key |-> Prefill(i - 1).key, at |-> 0, tick |-> 0,
                     forwarded |-> TRUE, accepted |-> TRUE]]

QueueStarts == {0, KEY_QUEUE_SIZE - 1}
QueueFills == {0} \cup ((KEY_QUEUE_SIZE - 1 - MaxFree)..(KEY_QUEUE_SIZE - 1))

InitQueue ==
    /\ module = TRUE
    /\ initialized = TRUE
    /\ frameBufferPtr = SCREEN_ADDR
    /\ loadPc = "done"
    /\ \E r \in QueueStarts, n \in QueueFills :
          /\ dg = PrefilledQueue(r, n)
          /\ pushLog = PrefillCalls(n)
          /\ nPush = n
    /\ created = TRUE
    /\ nTicks = 0
    /\ seen = << >>
    /\ quitDelivered = FALSE
    /\ screen = FirstFrame
    /\ host = HostRunning
    /\ lastCall = NoCall
    /\ ops = 0
    /\ keyStates = [k \in KeyIds |-> FALSE]
    /\ keyTimers = [k \in KeyIds |-> 0]
    /\ timers = {}
    /\ nextTimer = 1
    /\ now = 0
    /\ noteLog = << >>
    /\ exitCalls = 0
    /\ mouse = MouseIdle
    /\ mouseLog = << >>
    /\ InitSideVars

NextQueue ==
    \/ ApiPushKey
    \/ ApiTick

SpecQueue == InitQueue /\ [][NextQueue]_vars

(***************************************************************************)
(* The key queue read one event at a time.                                 *)
(***************************************************************************)
\* What *pressed and *key of the caller hold: what the last call of DG_GetKey
\* left there, and before the first call a value no event has.
GetKeyOutputs ==
    IF lastCall.op = "DG_GetKey" THEN [pressed |-> lastCall.pressed, key |-> lastCall.key]
    ELSE [pressed |-> 2, key |-> 255]

\* One call of DG_GetKey(&pressed, &key) by the engine; an event it returns
\* is taken over by the engine.
GetKeyCall ==
    /\ ops < MaxOps
    /\ ops' = ops + 1
    /\ LET r == DG_GetKey(dg, GetKeyOutputs.pressed, GetKeyOutputs.key) IN
       /\ dg' = r.q
       /\ seen' = IF r.ret = 1
                  THEN Append(seen, [pressed |-> r.pressed, key |-> r.key, tick |-> nTicks + 1])
                  ELSE seen
       /\ lastCall' = [op |-> "DG_GetKey", ret |-> r.ret, pressed |-> r.pressed, key |-> r.key,
                       before |-> GetKeyOutputs]
    /\ UNCHANGED <<engineVars, created, nTicks, nPush, quitDelivered, screen, host, inputVars,
                   sideVars>>

NextRing ==
    \/ ApiPushKey
    \/ GetKeyCall

SpecRing == InitQueue /\ [][NextRing]_vars


(***************************************************************************)
(* Properties of the key queue and of the engine adapter.                  *)
(***************************************************************************)
\* C5: when the key queue is full, DG_PushKeyEvent discards the new event and
\* leaves the queue contents and both indices as they were.
C5_FullQueueDrops ==
    [][(Len(pushLog') = Len(pushLog) + 1 /\ Last(pushLog').forwarded /\ QueueFull(dg))
          => dg' = dg]_vars

\* An event has been pushed onto a full queue.
C5_Witness ==
    /\ Len(pushLog) > 0
    /\ Last(pushLog).forwarded
    /\ ~Last(pushLog).accepted
    /\ QueueFull(dg)

\* The events tick number k dequeued, as (pressed, key).
SeenAt(k) ==
    LET sel == SelectSeq(seen, LAMBDA e : e.tick = k) IN
    [i \in 1..Len(sel) |-> <<sel[i].pressed, sel[i].key>>]

\* The events of the pushKey calls made after t ticks and before the next, as
\* the queue holds them.
Queued(calls) ==
    [i \in 1..Len(calls) |-> <<IF calls[i].pressed THEN 1 ELSE 0, calls[i].key % 256>>]

CallsAt(t) == Queued(SelectSeq(pushLog, LAMBDA e : e.tick = t))

AcceptedAt(t) == Queued(SelectSeq(pushLog, LAMBDA e : e.tick = t /\ e.accepted))

\* C6 as stated: every event pushed with pushKey before a tick is dequeued by
\* that tick, and one pushed after it by the next tick only.
C6_EveryPushSeen ==
    \A k \in 1..nTicks : SeenAt(k) = CallsAt(k - 1)

\* C6, amended: every event pushed with pushKey that the queue accepted is
\* dequeued by the next tick and by no other, in the order pushed; the events
\* accepted since the last tick are all waiting in the queue.
C6_AcceptedPushSeen ==
    /\ \A k \in 1..nTicks : SeenAt(k) = AcceptedAt(k - 1)
    /\ [i \in 1..QueueCount(dg) |-> <<QueueContents(dg)[i].pressed, QueueContents(dg)[i].key>>]
          = AcceptedAt(nTicks)

\* Two ticks have run, the first after a push the full queue refused, the
\* second after pushes made since the first.
C6_Witness ==
    /\ nTicks = 2
    /\ Len(SeenAt(1)) = KEY_QUEUE_SIZE - 1
    /\ Len(CallsAt(0)) > Len(AcceptedAt(0))
    /\ Len(SeenAt(2)) > 0

\* A call of tick or pushKey made while initialized is false changes nothing
\* of the engine or of the adapter and does not throw.
C7_Call ==
    (ops' = ops + 1 /\ lastCall'.op \in {"tick", "pushKey"} /\ ~initialized) =>
        /\ nTicks' = nTicks
        /\ nPush' = nPush
        /\ dg' = dg
        /\ seen' = seen
        /\ screen' = screen
        /\ quitDelivered' = quitDelivered
        /\ created' = created
        /\ UNCHANGED engineVars
        /\ ~lastCall'.threw

\* C7: tick or pushKey called before the load has completed forwards nothing
\* to the embedded engine, changes no adapter state and raises no error.
C7_NoOpBeforeInit == [][C7_Call]_vars

\* Both were called while the module was being created, and nothing was forwarded.
C7_Witness ==
    /\ lastCall.op = "tick"
    /\ lastCall.pc = "createModule"
    /\ ~lastCall.initialized
    /\ Len(pushLog) > 0
    /\ nPush = 0
    /\ nTicks = 0

\* C8: once the engine has delivered its quit request, a call of tick does
\* not advance the embedded engine.
C8_NoTickAfterQuit == [][quitDelivered => nTicks' = nTicks]_vars

\* C9: _doomgeneric_Tick is never invoked before _doomgeneric_Create has
\* returned, however the load interleaves with the callers of tick.
C9_NoTickBeforeCreate == [][nTicks' # nTicks => created]_vars

\* tick was called after _doomgeneric_Create threw, and was not forwarded.
C9_Witness ==
    /\ lastCall.op = "tick"
    /\ lastCall.module
    /\ ~created
    /\ nTicks = 0

\* Offsets at which a buffer of n bytes is inspected: its first two pixels,
\* a pixel in the middle, its last two pixels.
SampledOffsets(n) ==
    {off \in (0..7) \cup ((n \div 2)..((n \div 2) + 3)) \cup ((n - 8)..(n - 1)) : off >= 0 /\ off < n}

\* C10: getFrameBuffer called before initialization completes returns, without
\* failing, a buffer of exactly DOOM_WIDTH * DOOM_HEIGHT * 4 bytes, all zero.
C10_ZeroFrameBeforeInit ==
    (lastCall.op = "getFrameBuffer" /\ ~lastCall.initialized) =>
        /\ ~lastCall.threw
        /\ lastCall.result.length = DOOM_WIDTH * DOOM_HEIGHT * 4
        /\ \A off \in SampledOffsets(lastCall.result.length) : ByteAt(lastCall.result, off) = 0

\* getFrameBuffer was called while the module was being created.
C10_Witness ==
    /\ lastCall.op = "getFrameBuffer"
    /\ ~lastCall.initialized
    /\ lastCall.pc = "createModule"
    /\ lastCall.result.length > 0

(***************************************************************************)
(* The decoded frame.                                                      *)
(***************************************************************************)
\* Pixels at which a returned frame is inspected: the first two, one in the
\* middle of the screen, the last two.
SampledPixels ==
    {0, 1, (DOOM_WIDTH * DOOM_HEIGHT) \div 2, DOOM_WIDTH * DOOM_HEIGHT - 2,
     DOOM_WIDTH * DOOM_HEIGHT - 1}

\* Bytes 4i..4i+2 of buf are bits 16-23, 8-15 and 0-7 of word w (put back under
\* some top byte they give w), and byte 4i+3 is 255.
DecodesWord(buf, i, w) ==
    /\ \E a \in 0..255 :
          Argb(a, ByteAt(buf, 4 * i), ByteAt(buf, 4 * i + 1), ByteAt(buf, 4 * i + 2)) = w
    /\ \A c \in 0..2 : ByteAt(buf, 4 * i + c) \in 0..255
    /\ ByteAt(buf, 4 * i + 3) = 255

\* C11: for every pixel i of an initialized engine, getFrameBuffer yields
\* R = bits 16-23, G = bits 8-15, B = bits 0-7 of the 32-bit ARGB word i of the
\* engine's screen, and alpha = 255 whatever the word's top byte is.
C11_DecodeArgb ==
    [][(ops' = ops + 1 /\ lastCall'.op = "getFrameBuffer" /\ lastCall'.initialized) =>
          /\ ~lastCall'.threw
          /\ lastCall'.result.length = DOOM_WIDTH * DOOM_HEIGHT * 4
          /\ \A i \in SampledPixels : DecodesWord(lastCall'.result, i, ScreenWord(screen, i))]_vars

\* getFrameBuffer has returned a frame whose words have a top byte of 128 and
\* three different colour bytes.
C11_Witness ==
    /\ lastCall.op = "getFrameBuffer"
    /\ lastCall.initialized
    /\ screen = Uniform(SLATE)
    /\ lastCall.result.fill = "rgba"
    /\ lastCall.result.frame = Uniform(SLATE)
    /\ ByteAt(lastCall.result, 0) = 1
    /\ ByteAt(lastCall.result, 2) = 3

(***************************************************************************)
(* The frame loop.                                                         *)
(***************************************************************************)
\* A step is a frame callback that found the engine and the renderable.
FrameStep == ops' = ops + 1 /\ lastCall'.op = "gameLoop" /\ host.framebufferRenderable

\* C12: within one frame callback the engine advance (tick) happens before the
\* frame buffer read, which happens before any cell is written: the pixels read
\* are those of the screen the tick has left, and the cells written are sampled
\* from those pixels.
C12_TickReadBlit ==
    [][FrameStep =>
          /\ nTicks' = nTicks + 1
          /\ lastCall'.result = DecodedFrame(screen', frameBufferPtr)
          /\ lastCall'.setCells > 0 => /\ host'.fb.cells.kind = "blit"
                                       /\ host'.fb.cells.pixels = lastCall'.result]_vars

\* A frame callback whose tick drew another frame than the one on the screen
\* before has read that frame and written cells from it.
C12_Witness ==
    /\ lastCall.op = "gameLoop"
    /\ lastCall.setCells > 0
    /\ screen = Ramp(1)
    /\ lastCall.before.kind = "blit"
    /\ lastCall.before.pixels.frame = Uniform(RED)
    /\ host.fb.cells.pixels.frame = Ramp(1)

\* Cells at which a grid is inspected: its corners, its middle, and their neighbours.
SampledCells(width, height) ==
    {c \in ({0, 1, width \div 2, width - 1} \X {0, 1, height \div 2, height - 1}) :
        c[1] >= 0 /\ c[1] < width /\ c[2] >= 0 /\ c[2] < height}

\* The colour of the source pixel in column sx of row sy.
SourcePixel(pixels, sx, sy) ==
    <<ByteAt(pixels, (sy * DOOM_WIDTH + sx) * 4), ByteAt(pixels, (sy * DOOM_WIDTH + sx) * 4 + 1),
      ByteAt(pixels, (sy * DOOM_WIDTH + sx) * 4 + 2)>>

\* The grid holds what the last blit wrote for its present size.
Blitted == host.fb.cells.kind = "blit" /\ host.fb.cells.width = host.fb.width
                                       /\ host.fb.cells.height = host.fb.height

\* C13: every cell (x, y) of a cols x rows grid holds, after the blit, the half
\* block with foreground = source pixel (floor(x*W/cols), floor(2y*H/(2*rows)))
\* and background = source pixel (floor(x*W/cols), floor((2y+1)*H/(2*rows))).
C13_BlitSamplesFloor ==
    Blitted =>
        \A c \in SampledCells(host.fb.width, host.fb.height) :
            CellAt(host.fb, c[1], c[2]) =
                [glyph |-> HALF_BLOCK,
                 fg |-> SourcePixel(host.fb.cells.pixels,
                                    (c[1] * DOOM_WIDTH) \div host.fb.width,
                                    (2 * c[2] * DOOM_HEIGHT) \div (2 * host.fb.height)),
                 bg |-> SourcePixel(host.fb.cells.pixels,
                                    (c[1] * DOOM_WIDTH) \div host.fb.width,
                                    ((2 * c[2] + 1) * DOOM_HEIGHT) \div (2 * host.fb.height))]

\* The cells a blit of `pixels` leaves in a grid that never had another size.
FreshBlit(pixels, width, height) ==
    [Grid(width, height) EXCEPT !.cells = Blit(pixels, Grid(width, height))]

\* C14: the blit result depends only on the source buffer and the present size
\* of the grid: a frame callback sets every cell, and leaves the grid as a blit
\* of the same pixels into a grid that never had another size would, whatever
\* the cells held before and whatever sizes the grid had before.
C14_BlitDeterministic ==
    [][(FrameStep /\ host.fb.width > 0 /\ host.fb.height > 0) =>
          /\ lastCall'.setCells = host.fb.width * host.fb.height
          /\ host'.fb.cells = FreshBlit(lastCall'.result, host.fb.width, host.fb.height).cells
          /\ \A c \in {<<host.fb.width \div 2, host.fb.height \div 2>>,
                         <<host.fb.width - 1, host.fb.height - 1>>} :
                CellAt(host'.fb, c[1], c[2]) =
                    CellAt(FreshBlit(lastCall'.result, host.fb.width, host.fb.height), c[1], c[2])
          /\ (host.fb.cells.kind = "blit" /\ host.fb.cells.pixels = lastCall'.result
              /\ host.fb.cells.width = host.fb.width /\ host.fb.cells.height = host.fb.height)
                 => host'.fb.cells = host.fb.cells]_vars

\* A frame callback has blitted into a resized grid that still held the cells
\* written for another size.
C14_Witness ==
    /\ lastCall.op = "gameLoop"
    /\ host.fb.resized
    /\ lastCall.before.kind = "blit"
    /\ lastCall.before.width # host.fb.width
    /\ host.fb.cells.kind = "blit"
    /\ host.fb.cells.width = host.fb.width
    /\ host.fb.width = 154

\* C15: when the grid has zero rows or zero columns, the blit writes no cell.
C15_NoCellOnEmptyGrid ==
    [][(FrameStep /\ (host.fb.width = 0 \/ host.fb.height = 0)) =>
          /\ lastCall'.setCells = 0
          /\ host'.fb.cells = host.fb.cells
          /\ ~lastCall'.threw]_vars

\* A frame callback has run, tick included, on a grid without columns that
\* held cells written for an earlier size.
C15_Witness ==
    /\ lastCall.op = "gameLoop"
    /\ host.fb.width = 0
    /\ host.fb.height > 0
    /\ lastCall.setCells = 0
    /\ lastCall.before.kind = "blit"
    /\ nTicks >= 2

(***************************************************************************)
(* Properties of the mouse handler.                                        *)
(***************************************************************************)
\* After the first n pushKey calls, the last one for `code` was a press.
HeldAfter(n, code) ==
    LET idx == {i \in 1..n : pushLog[i].key = code} IN
    idx # {} /\ pushLog[CHOOSE i \in idx : \A j \in idx : j <= i].pressed

\* The positions in pushLog of the calls made by the mouse notification m.
PushesOf(m) == {i \in 1..Len(pushLog) : pushLog[i].src = "mouse" /\ pushLog[i].note = m}

\* The mouse notification m was a movement to the left or to the right.
IsMovement(m) ==
    /\ mouseLog[m].kind = "move"
    /\ mouseLog[m].lastMouseX # NoX
    /\ mouseLog[m].arg # mouseLog[m].lastMouseX

\* The turn key of the movement m.
TurnKeyOf(m) == NewTurnKey(mouseLog[m].arg - mouseLog[m].lastMouseX)

\* C16: the mouse handler never has both turn codes pressed in the engine at
\* once; on a direction change the release of the old turn key is pushed
\* before the press of the new one, with no other event between them.
C16_TurnKeysExclusive ==
    /\ \A n \in 0..Len(pushLog) :
          ~(HeldAfter(n, KEY_LEFTARROW) /\ HeldAfter(n, KEY_RIGHTARROW))
    /\ \A m \in 1..Len(mouseLog) :
          (IsMovement(m) /\ mouseLog[m].held # 0 /\ mouseLog[m].held # TurnKeyOf(m)) =>
              \E i \in 1..(Len(pushLog) - 1) :
                  /\ PushesOf(m) = {i, i + 1}
                  /\ ~pushLog[i].pressed /\ pushLog[i].key = mouseLog[m].held
                  /\ pushLog[i + 1].pressed /\ pushLog[i + 1].key = TurnKeyOf(m)

\* The pointer moved right, then left while the right-turn key was held.
C16_Witness ==
    \E m \in 1..Len(mouseLog) :
        /\ IsMovement(m)
        /\ mouseLog[m].held = KEY_RIGHTARROW
        /\ TurnKeyOf(m) = KEY_LEFTARROW
        /\ HeldAfter(Len(pushLog), KEY_LEFTARROW)
        /\ ~HeldAfter(Len(pushLog), KEY_RIGHTARROW)

\* The pushKey calls for `code`, in order.
CallsFor(code) ==
    LET idx == {i \in 1..Len(pushLog) : pushLog[i].key = code} IN
    [k \in 1..Cardinality(idx) |->
        pushLog[CHOOSE i \in idx : Cardinality({j \in idx : j <= i}) = k]]

\* Presses and releases alternate, starting with a press.
Alternates(calls) == \A k \in 1..Len(calls) : calls[k].pressed = (k % 2 = 1)

\* C17: a turn key pressed by mouse movement stays pressed while movements in
\* the same direction keep arriving (they push nothing), its release is always
\* scheduled for 100 ms after the last movement, and it is released once, by
\* the timer, exactly then.
C17_TurnKeyHeldThenReleased ==
    /\ \A m \in 1..Len(mouseLog) :
          (IsMovement(m) /\ mouseLog[m].held = TurnKeyOf(m)) => PushesOf(m) = {}
    /\ \A code \in {KEY_LEFTARROW, KEY_RIGHTARROW} : Alternates(CallsFor(code))
    /\ \A t \in timers :
          t.kind = "mouse" =>
              /\ t.due = mouseLog[t.note].at + RELEASE_DELAY
              /\ \A m \in (t.note + 1)..Len(mouseLog) : ~IsMovement(m)
    /\ \A code \in {KEY_LEFTARROW, KEY_RIGHTARROW} :
          HeldAfter(Len(pushLog), code) => \E t \in timers : t.kind = "mouse"
    /\ \A i \in 1..Len(pushLog) :
          pushLog[i].src = "mouseTimer" =>
              /\ ~pushLog[i].pressed
              /\ IsMovement(pushLog[i].note)
              /\ pushLog[i].key = TurnKeyOf(pushLog[i].note)
              /\ pushLog[i].at = mouseLog[pushLog[i].note].at + RELEASE_DELAY
              /\ \A m \in (pushLog[i].note + 1)..Len(mouseLog) :
                    IsMovement(m) => mouseLog[m].at >= pushLog[i].at

\* A turn key was pressed, a movement in the same direction came 50 ms later,
\* and the timer released the key 100 ms after that one.
C17_Witness ==
    \E i \in 1..Len(pushLog) :
        /\ pushLog[i].src = "mouseTimer"
        /\ mouseLog[pushLog[i].note].held = pushLog[i].key
        /\ \E p \in 1..(i - 1) :
              /\ pushLog[p].pressed
              /\ pushLog[p].key = pushLog[i].key
              /\ pushLog[p].at + 50 = mouseLog[pushLog[i].note].at
        /\ pushLog[i].at = mouseLog[pushLog[i].note].at + 100

(***************************************************************************)
(* Shutdown of the keyboard bridge.  The only shutdown path of the handler *)
(* is the Ctrl+C notification, which calls onExit and returns.             *)
(***************************************************************************)
\* The step is a shutdown: onExit has been called in it.
ShutdownStep == exitCalls' = exitCalls + 1

\* The calls of engine.pushKey made in the step.
PushedInStep == {i \in 1..Len(pushLog') : i > Len(pushLog)}

\* C18: at shutdown every key still marked pressed gets an explicit release
\* pushed to the engine and every pending key-release timer is cancelled: after
\* the shutdown step no key is marked pressed, no timer is outstanding, and each
\* code of each key that was marked pressed has been released in the step.
C18_ShutdownDrainsKeys ==
    [][ShutdownStep =>
          /\ \A id \in KeyIds : ~keyStates'[id]
          /\ timers' = {}
          /\ \A id \in KeyIds : \A k \in KeyEvents :
                (keyStates[id] /\ KeyIdOf(k) = id /\ ~IsCtrlC(k)) =>
                    \A j \in 1..Len(mapKeyToDoom(k)) :
                        \E i \in PushedInStep :
                            /\ ~pushLog'[i].pressed
                            /\ pushLog'[i].key = mapKeyToDoom(k)[j]]_vars

(***************************************************************************)
(* Notifications that map to no engine code.                               *)
(***************************************************************************)
\* The step delivers a key notification that maps to zero codes.
DroppedStep ==
    /\ Len(noteLog') = Len(noteLog) + 1
    /\ Len(mapKeyToDoom(Last(noteLog').key)) = 0

\* C19: a key notification that maps to zero engine codes pushes no event to the
\* engine, changes no entry of the key state table and neither cancels nor
\* schedules any timer.
C19_UnmappedDropped ==
    [][DroppedStep =>
          /\ pushLog' = pushLog /\ nPush' = nPush /\ dg' = dg
          /\ keyStates' = keyStates
          /\ timers' = timers /\ keyTimers' = keyTimers /\ nextTimer' = nextTimer]_vars

\* An unmapped notification has arrived for a key id that is marked pressed and
\* has a release timer pending.
C19_Witness ==
    /\ Len(noteLog) >= 2
    /\ Len(mapKeyToDoom(Last(noteLog).key)) = 0
    /\ keyStates[Last(noteLog).keyId]
    /\ keyTimers[Last(noteLog).keyId] # 0
    /\ \E t \in timers : t.keyId = Last(noteLog).keyId /\ t.due > Last(noteLog).at

(***************************************************************************)
(* The codes of the movement keys.                                         *)
(***************************************************************************)
\* The key names mapKeyToDoom tests for, upper-case movement letters, and names
\* it does not know.
KeyNames ==
    {S_up, S_down, S_left, S_right, S_space, S_return, S_enter, S_escape, S_tab,
     S_backspace, S_alt, S_home, S_empty}
    \cup {S_f(n) : n \in 1..13}
    \cup {Chr(c) : c \in 48..57}
    \cup {Chr(c) : c \in 97..122}
    \cup {Chr(87), Chr(83), Chr(65), Chr(68), Chr(43), Chr(61), Chr(45)}

\* Every such name with every combination of Ctrl, Alt and Shift; the sequence
\* is the character itself for a one-character name.
NamedKeys ==
    {Key(name, IF Len(name) = 1 THEN name ELSE Csi(72), ctrl, meta, shift) :
        name \in KeyNames, ctrl \in BOOLEAN, meta \in BOOLEAN, shift \in BOOLEAN}

\* The directional or strafe code of a movement letter.
DirectionOf(char) ==
    IF char = 119 THEN KEY_UPARROW
    ELSE IF char = 115 THEN KEY_DOWNARROW
    ELSE IF char = 97 THEN KEY_STRAFE_L
    ELSE KEY_STRAFE_R

IsMovementKey(key) == toLowerCase(key.name) \in {Chr(119), Chr(115), Chr(97), Chr(100)}

\* The key maps as claimed: a movement key to its directional code and its
\* character code, any other key to at most one code.
MapsAsMovement(key) ==
    IF IsMovementKey(key)
    THEN mapKeyToDoom(key) = <<DirectionOf(toLowerCase(key.name)[1]), toLowerCase(key.name)[1]>>
    ELSE Len(mapKeyToDoom(key)) <= 1

\* Every key of the table, whatever its modifiers, maps as claimed.
EveryKeyMapsAsMovement == \A key \in NamedKeys \cup MovementKeyEvents : MapsAsMovement(key)

\* C20: each movement key W, S, A, D maps to exactly two engine codes, its
\* directional or strafe code and its ASCII character code, and both the press
\* and the later release are pushed for both codes; every other mapped key
\* yields exactly one code.
C20_MovementKeysTwoCodes ==
    /\ EveryKeyMapsAsMovement
    /\ \A m \in 1..Len(noteLog) :
          LET n == noteLog[m]
              codes == mapKeyToDoom(n.key)
              presses == IF n.wasPressed THEN << >> ELSE EventsFor(TRUE, codes, n.at)
          IN  /\ MapsAsMovement(n.key)
              /\ TimerPendingOf(m) => EventsOf(m) = presses
              /\ (~TimerPendingOf(m) /\ QuietAfter(m)) =>
                     EventsOf(m) = presses \o EventsFor(FALSE, codes, n.at + KEY_RELEASE_DELAY)

\* The press and, 300 ms later, the release of a movement key have been pushed
\* for both of its codes.
C20_Witness ==
    \E m \in 1..Len(noteLog) :
        /\ noteLog[m].key = K_a
        /\ EventsOf(m) = <<<<TRUE, KEY_STRAFE_L, noteLog[m].at, TRUE>>,
                           <<TRUE, 97, noteLog[m].at, TRUE>>,
                           <<FALSE, KEY_STRAFE_L, noteLog[m].at + KEY_RELEASE_DELAY, TRUE>>,
                           <<FALSE, 97, noteLog[m].at + KEY_RELEASE_DELAY, TRUE>>>>

(***************************************************************************)
(* Properties of the save manager.                                         *)
(***************************************************************************)
SlotOps == {"getSaveFilePath", "writeSave", "readSave", "saveExists"}

\* C21: for every slot value outside 0..5, each save operation (path lookup,
\* write, read, exists) fails with the invalid-slot error before any file-system
\* call is made, directory creation included: the call throws, has made no
\* file-system call and has left the filesystem as it was.
C21_InvalidSlotNoIo ==
    (saveCall.op \in SlotOps /\ (saveCall.slot < 0 \/ saveCall.slot > 5)) =>
        /\ saveCall.threw
        /\ saveCall.io = << >>
        /\ disk = saveCall.before

\* The step is a call of the save manager.
SaveStep(op) == saveOps' = saveOps + 1 /\ saveCall'.op = op

\* The last call was a successful writeSave.
WroteSave == saveCall.op = "writeSave" /\ ~saveCall.threw /\ saveCall.result = TRUE

\* C22: for every slot s in 0..5 and byte sequence B, a successful
\* writeSave(s, B) followed by readSave(s) returns exactly B, and the write
\* leaves the files of all other slots (every other entry) unchanged.
C22_RoundTrip ==
    [][/\ (SaveStep("readSave") /\ WroteSave /\ saveCall'.slot = saveCall.slot) =>
              (~saveCall'.threw /\ saveCall'.result = saveCall.data)
       /\ (SaveStep("writeSave") /\ WroteSave') =>
              /\ saveCall'.slot \in 0..5
              /\ \A path \in (DOMAIN disk.entries \cup DOMAIN disk'.entries)
                                \ {join(SAVE_DIR, SaveFileName(saveCall'.slot))} :
                    /\ path \in DOMAIN disk.entries
                    /\ path \in DOMAIN disk'.entries
                    /\ disk'.entries[path] = disk.entries[path]]_vars

\* A blob that no initial directory holds has been written to slot 5, beside
\* other entries, and read back.
C22_Witness ==
    /\ saveCall.op = "readSave"
    /\ saveCall.slot = 5
    /\ saveCall.result = <<255>>
    /\ Cardinality(DOMAIN disk.entries) > 1

\* The slots of 0..5 whose file doomsav{s}.dsg is in the save directory and can
\* be read.
ReadableSlots(d) == {slot \in 0..5 : CanRead(d, join(SAVE_DIR, SaveFileName(slot)))}

Mounted(name, data) ==
    \E path \in DOMAIN memfs :
        /\ Len(path) >= Len(name)
        /\ SubSeq(path, Len(path) - Len(name) + 1, Len(path)) = name
        /\ memfs[path] = File(data)

\* C24: during load, the game-data file and every existing durable save file
\* are written into the engine's private filesystem before the engine's startup
\* routine (create) runs: once create has run, the private filesystem holds the
\* game data and the bytes of every readable durable save.
C24_MountedBeforeCreate ==
    created =>
        /\ Mounted(S_doom1_wad, WadBytes)
        /\ \A slot \in ReadableSlots(disk) :
              Mounted(SaveFileName(slot), disk.entries[join(SAVE_DIR, SaveFileName(slot))].data)

\* C25: if load fails (game-data file unreadable or engine module not created),
\* the call fails with an error, the engine is never marked initialized, and the
\* host never installs the tick loop, so the embedded engine is never ticked.
C25_FailedLoadNeverTicks ==
    loadPc = "failed" =>
        /\ host.error
        /\ ~initialized
        /\ ~host.frameCallback /\ ~host.framebufferRenderable
        /\ nTicks = 0

\* The load has failed before the engine module existed and tick() has been
\* called since, to no effect.
C25_Witness ==
    /\ loadPc = "failed"
    /\ ~module
    /\ lastCall.op = "tick"
    /\ nTicks = 0

\* The entries named like a save of slots 0..5 that cannot be read as files.
UnreadableSaves(d) ==
    {slot \in 0..5 : existsSync(d, join(SAVE_DIR, SaveFileName(slot))) /\ slot \notin ReadableSlots(d)}

Matches(fs, slot) == {i \in 1..Len(CandidateDirs) : HoldsSave(fs, CandidatePath(i, slot))}

FirstMatch(fs, slot) == CHOOSE i \in Matches(fs, slot) : \A j \in Matches(fs, slot) : i <= j

DurableFile(slot) == join(SAVE_DIR, SaveFileName(slot))

\* What the disk d holds at a path: an entry, or nothing.
EntryAt(d, path) == IF path \in DOMAIN d.entries THEN <<d.entries[path]>> ELSE << >>

C28_PeriodicAndFinalSync ==
    /\ [](host.frameCallback /\ now > SYNC_INTERVAL => sync.runs >= 1)
    /\ [](exited /\ host.frameCallback => sync.runs >= 1)
    /\ [][exited => sync' = sync]_vars

(***************************************************************************)
(* Properties of the audio bridge.                                         *)
(***************************************************************************)
\* The step is a shutdownAudio() on an initialized audio system.
AudioShutdownStep == audio.initialized /\ ~audio'.initialized

\* The processes that have been sent the signal.
Signalled(a, signal) == {proc \in 1..Len(a.processes) : signal \in a.processes[proc].signals}

\* C29: when shutdownAudio completes on an initialized audio system, every
\* process that was tracked has been sent SIGKILL, the tracking set is empty
\* and no music process is recorded; and a step taken while the audio system
\* is not initialized spawns no player process.
C29_ShutdownKillsAll ==
    [][/\ AudioShutdownStep =>
            /\ audio.activeProcesses \subseteq Signalled(audio', "SIGKILL")
            /\ audio'.activeProcesses = {}
            /\ audio'.musicProcess = NoProcess
       /\ ~audio.initialized => Len(audio'.processes) = Len(audio.processes)]_vars

\* The audio system has been shut down with a sound and a music player
\* running: both have been sent SIGKILL and neither has exited yet.
C29_Witness ==
    /\ ~audio.initialized
    /\ audio.activeProcesses = {}
    /\ audio.musicProcess = NoProcess
    /\ \E sound, music \in Signalled(audio, "SIGKILL") :
          /\ audio.processes[sound].filePath = SoundPath("pistol")
          /\ audio.processes[music].filePath = MusicPath("e1m1")
          /\ audio.processes[sound].state = "running"
          /\ audio.processes[music].state = "running"

\* The music players that have been spawned and have not exited.
LiveMusic(a) ==
    {proc \in 1..Len(a.processes) :
        /\ a.processes[proc].filePath \in {MusicPath("e1m1"), MusicPath("e1m2")}
        /\ a.processes[proc].state = "running"}

\* The step records a newly spawned music process.
MusicSpawnStep == audio'.musicProcess = Len(audio.processes) + 1

\* C30: at most one music process is live at any time, and a playMusic that
\* spawns a music process has first sent SIGTERM to the music process that
\* was recorded before it, if that one was still running.
C30_OneMusicProcess ==
    /\ [](Cardinality(LiveMusic(audio)) <= 1)
    /\ [][MusicSpawnStep /\ audio.musicProcess \in LiveMusic(audio) =>
              audio.musicProcess \in Signalled(audio', "SIGTERM")]_vars

(***************************************************************************)
(* Further properties of the keyboard bridge.                              *)
(***************************************************************************)
\* The step is the handler called with Ctrl+C.
CtrlCStep == Len(noteLog') = Len(noteLog) + 1 /\ Last(noteLog').key = K_ctrl_c

\* C31: a Ctrl+C notification calls the exit callback once, pushes no key
\* event to the engine, changes no key state and schedules no timer.
C31_CtrlCOnlyExits ==
    [][CtrlCStep =>
          /\ exitCalls' = exitCalls + 1
          /\ pushLog' = pushLog
          /\ nPush' = nPush
          /\ dg' = dg
          /\ keyStates' = keyStates
          /\ keyTimers' = keyTimers
          /\ timers' = timers
          /\ nextTimer' = nextTimer]_vars

\* Ctrl+C has arrived while a key was marked pressed with its timer pending.
C31_Witness ==
    /\ exitCalls = 1
    /\ Last(noteLog).key = K_ctrl_c
    /\ \E k \in KeyIds : keyStates[k] /\ keyTimers[k] # 0
    /\ Len(pushLog) = 1

\* The pushes made for code c on behalf of notifications of ordinary keys.
OrdinaryPushesOf(c) ==
    SelectSeq(pushLog, LAMBDA e : e.key = c /\ IsOrdinaryNote(noteLog[e.note]))

\* The codes pushed so far.
PushedCodes == {pushLog[i].key : i \in 1..Len(pushLog)}

\* C32: for every code, the events pushed for it in response to notifications
\* of ordinary keys alternate press, release, press, ...: the first is a
\* press and no two in a row are both presses or both releases.
C32_PressReleaseAlternate ==
    \A c \in PushedCodes :
        LET events == OrdinaryPushesOf(c) IN
        \A i \in 1..Len(events) : events[i].pressed = (i % 2 = 1)

\* C33: once every scheduled timer has fired, every press the bridge has
\* pushed for a code is followed by a release pushed for the same code.
C33_PressesGetReleased ==
    timers = {} =>
        \A i \in 1..Len(pushLog) :
            pushLog[i].pressed =>
                \E j \in (i + 1)..Len(pushLog) :
                    ~pushLog[j].pressed /\ pushLog[j].key = pushLog[i].key

(***************************************************************************)
(* Further properties of the key queue.                                    *)
(***************************************************************************)
\* The events the queue has accepted so far, as the queue holds them.
AcceptedSoFar == Queued(SelectSeq(pushLog, LAMBDA e : e.accepted))

\* The events DG_GetKey has delivered so far, in the order delivered.
DeliveredSoFar == [i \in 1..Len(seen) |-> <<seen[i].pressed, seen[i].key>>]

\* The events waiting in the queue, oldest first.
WaitingNow ==
    [i \in 1..QueueCount(dg) |-> <<QueueContents(dg)[i].pressed, QueueContents(dg)[i].key>>]

\* The step is a call of DG_GetKey on an empty queue.
EmptyReadStep ==
    /\ lastCall'.op = "DG_GetKey"
    /\ ops' = ops + 1
    /\ dg.key_queue_read = dg.key_queue_write

\* C34: DG_GetKey delivers the accepted events in the order pushed, each once
\* (what has been delivered, followed by what is waiting, is what has been
\* accepted), and on an empty queue it returns 0 and leaves its outputs and
\* the queue with its indices as they were.
C34_FifoDelivery ==
    /\ [](DeliveredSoFar \o WaitingNow = AcceptedSoFar)
    /\ [][EmptyReadStep =>
             /\ lastCall'.ret = 0
             /\ lastCall'.pressed = lastCall'.before.pressed
             /\ lastCall'.key = lastCall'.before.key
             /\ dg' = dg
             /\ seen' = seen]_vars

\* An event stored in the last slot has been delivered, the read index has
\* wrapped to 0, and the next read, of the emptied queue, has returned 0.
C34_Witness ==
    /\ lastCall.op = "DG_GetKey"
    /\ lastCall.ret = 0
    /\ lastCall.before.pressed # 2
    /\ Len(seen) = 1
    /\ Len(pushLog) = 1
    /\ dg.key_queue_read = 0

\* The events accepted and not yet delivered.
PendingEvents == Len(AcceptedSoFar) - Len(seen)

\* The step is a call of DG_PushKeyEvent.
PushStep == Len(pushLog') = Len(pushLog) + 1 /\ Last(pushLog').forwarded

\* C35: after any sequence of pushes and reads both indices are in [0, 256)
\* and at most 255 events are pending; a push never leaves the write index
\* equal to the read index, and the indices are equal exactly when no event
\* is pending.
C35_IndicesInRange ==
    /\ [](/\ dg.key_queue_read \in 0..(KEY_QUEUE_SIZE - 1)
          /\ dg.key_queue_write \in 0..(KEY_QUEUE_SIZE - 1)
          /\ PendingEvents \in 0..(KEY_QUEUE_SIZE - 1)
          /\ (dg.key_queue_read = dg.key_queue_write) = (PendingEvents = 0))
    /\ [][PushStep => dg'.key_queue_write # dg'.key_queue_read]_vars

\* 255 events are pending in a queue whose write index has wrapped, and the
\* push that followed was refused.
C35_Witness ==
    /\ PendingEvents = KEY_QUEUE_SIZE - 1
    /\ dg.key_queue_write < dg.key_queue_read
    /\ Len(pushLog) > Len(AcceptedSoFar)
    /\ Len(seen) > 0

(***************************************************************************)
(* Key codes and the engine's 8-bit key field.                             *)
(***************************************************************************)
\* Every code mapKeyToDoom yields, for every key name with every combination
\* of modifiers, and every code the mouse handler uses, is in 0..255.
MappedCodesAreBytes ==
    /\ \A key \in NamedKeys \cup ControlKeys :
          \A i \in 1..Len(mapKeyToDoom(key)) : mapKeyToDoom(key)[i] \in 0..255
    /\ \A delta \in {0 - 2, 0 - 1, 1, 2} : NewTurnKey(delta) \in 0..255
    /\ KEY_FIRE \in 0..255

\* The slot of the key queue an accepted push wrote: the key as the engine
\* stored it.  Pushes are numbered from 1 and the queue starts at slot 0.
AcceptedBefore(i) == Cardinality({j \in 1..(i - 1) : pushLog[j].accepted})

\* C36: every key code that the keyboard bridge or the mouse handler pushes to
\* the engine is an integer in 0..255, so truncating it to the engine's
\* unsigned 8-bit key field leaves it unchanged.
C36_PushedCodesAreBytes ==
    /\ MappedCodesAreBytes
    /\ \A i \in 1..Len(pushLog) :
          /\ pushLog[i].key \in 0..255
          /\ pushLog[i].key % 256 = pushLog[i].key
          /\ pushLog[i].accepted =>
                Slot(dg, AcceptedBefore(i) % KEY_QUEUE_SIZE).key = pushLog[i].key

\* The keyboard bridge has pushed the largest mapped code (no mouse event
\* yields it) and the mouse handler the fire key and a turn key (no key of
\* ControlKeys yields them), all above 127, and the queue took them.
C36_Witness ==
    /\ \E n \in 1..Len(noteLog) : noteLog[n].keyId = KeyIdOf(K_f12)
    /\ \E m \in 1..Len(mouseLog) : mouseLog[m].kind = "down"
    /\ \E m \in 1..Len(mouseLog) : mouseLog[m].kind = "move"
    /\ \A c \in {KEY_F12, KEY_FIRE, KEY_RIGHTARROW} :
          \E i \in 1..Len(pushLog) :
             pushLog[i].pressed /\ pushLog[i].key = c /\ pushLog[i].accepted /\ c > 127

(***************************************************************************)
(* The source coordinates the blit samples.                                *)
(***************************************************************************)
\* Grids of up to FullScan columns or rows are examined cell by cell; of a
\* larger one, the first and the last cells and one in every Stride.
FullScan == 32
Stride == 97

Examined(n) ==
    IF n <= FullScan THEN 0..(n - 1)
    ELSE {i \in 0..(n - 1) : i < 2 \/ i >= n - 2 \/ i % Stride = 0}

\* Every column of a grid of `cols` columns samples a source column.
ColumnsInRange(cols) ==
    \A x \in Examined(cols) : LET sx == srcX(x, cols) IN 0 <= sx /\ sx < DOOM_WIDTH

\* Every row of a grid of `rows` rows samples two source rows, the top one
\* not below the bottom one.
RowsInRange(rows) ==
    \A y \in Examined(rows) :
       LET top == srcY1(y, rows)
           bottom == srcY2(y, rows)
       IN 0 <= top /\ top <= bottom /\ bottom < DOOM_HEIGHT

\* Numbers of columns and of rows examined: those of the grids of GridSizes,
\* and those about the source's width and half its height.
CheckedCols == {size[1] : size \in GridSizes} \cup {2, 1279, 1280, 2560}
CheckedRows == {size[2] : size \in GridSizes} \cup {2, 399, 400, 800}

SafeCols == {cols \in CheckedCols : ColumnsInRange(cols)}
SafeRows == {rows \in CheckedRows : RowsInRange(rows)}

\* C37: for every grid size with cols >= 1 and rows >= 1 (grids with more rows
\* than half the source's height or more columns than its width included), every
\* source coordinate the blit samples satisfies 0 <= srcX < W and
\* 0 <= srcY1 <= srcY2 < H, so that no read falls outside the source buffer.
C37_SamplesInsideSource ==
    /\ SafeCols = CheckedCols
    /\ SafeRows = CheckedRows
    /\ Blitted =>
          /\ host.fb.width \in SafeCols
          /\ host.fb.height \in SafeRows
          /\ \A x \in {0, host.fb.width - 1}, y \in {0, host.fb.height - 1} :
                /\ (srcY1(y, host.fb.height) * DOOM_WIDTH + srcX(x, host.fb.width)) * 4 + 2
                      < DOOM_WIDTH * DOOM_HEIGHT * 4
                /\ (srcY2(y, host.fb.height) * DOOM_WIDTH + srcX(x, host.fb.width)) * 4 + 2
                      < DOOM_WIDTH * DOOM_HEIGHT * 4

\* A grid with more columns than the source and more rows than half its rows
\* has been blitted: its last cell samples the last source column and row, and
\* its first two columns sample the same source column.
C37_Witness ==
    /\ Blitted
    /\ host.fb.width > DOOM_WIDTH
    /\ host.fb.height * 2 > DOOM_HEIGHT
    /\ srcX(host.fb.width - 1, host.fb.width) = DOOM_WIDTH - 1
    /\ srcY2(host.fb.height - 1, host.fb.height) = DOOM_HEIGHT - 1
    /\ srcX(1, host.fb.width) = srcX(0, host.fb.width)

(***************************************************************************)
(* Further properties of the mouse handler.                                *)
(***************************************************************************)
TurnKeyHeld == mouse.currentTurnKey # 0
ReleasePending == mouse.releaseTimer # 0

\* The timeouts of the mouse handler that have neither fired nor been cancelled.
PendingMouseTimers == {t \in timers : t.kind = "mouse"}

\* The step is the callback of a release timeout, run while a turn key is held.
TimerReleaseStep ==
    /\ TurnKeyHeld
    /\ mouseLog' = mouseLog
    /\ PendingMouseTimers' # PendingMouseTimers

\* C38: in the mouse handler a release timer is pending exactly when a turn key
\* is held: releaseTimer is set if and only if currentTurnKey is not null, the
\* timer it names is the one pending timeout of the handler and is due within
\* RELEASE_DELAY, and when it fires it pushes the release of the held key and
\* leaves no key held.
C38_TimerIffTurnKey ==
    /\ [](ReleasePending <=> TurnKeyHeld)
    /\ [](IF TurnKeyHeld
          THEN /\ Cardinality(PendingMouseTimers) = 1
               /\ \A t \in PendingMouseTimers :
                     t.id = mouse.releaseTimer /\ t.due <= now + RELEASE_DELAY
          ELSE PendingMouseTimers = {})
    /\ [][TimerReleaseStep =>
             /\ pushLog' = Append(pushLog, pushLog'[Len(pushLog')])
             /\ ~pushLog'[Len(pushLog')].pressed
             /\ pushLog'[Len(pushLog')].key = mouse.currentTurnKey
             /\ ~TurnKeyHeld' /\ ~ReleasePending']_vars

\* A timer has fired and released a turn key, and a later movement holds a
\* turn key again, with its timer pending.
C38_Witness ==
    /\ TurnKeyHeld /\ ReleasePending
    /\ \E i \in 1..Len(pushLog) : pushLog[i].src = "mouseTimer" /\ ~pushLog[i].pressed

\* The step is a call of reset.
ResetStep ==
    /\ Len(mouseLog') = Len(mouseLog) + 1
    /\ mouseLog'[Len(mouseLog')].kind = "reset"

\* The releases a reset owes: of the turn key if one is held, then of the fire
\* key if the left button is down.
ResetReleases ==
    (IF TurnKeyHeld THEN <<mouse.currentTurnKey>> ELSE << >>)
    \o (IF mouse.isLeftMouseDown THEN <<KEY_FIRE>> ELSE << >>)

\* The step is the callback of a release timeout that pushes an event.
TimerPushStep ==
    /\ Len(pushLog') = Len(pushLog) + 1
    /\ pushLog'[Len(pushLog')].src = "mouseTimer"

\* C39: reset releases the held turn key and the fire key if and only if each is
\* held (one release event each, none otherwise), cancels the pending timer and
\* leaves the handler in its initial state; a timer scheduled before a reset
\* never pushes a release after it.
C39_ResetReleasesHeld ==
    /\ [][ResetStep =>
             /\ Len(pushLog') = Len(pushLog) + Len(ResetReleases)
             /\ SubSeq(pushLog', 1, Len(pushLog)) = pushLog
             /\ \A i \in 1..Len(ResetReleases) :
                   /\ ~pushLog'[Len(pushLog) + i].pressed
                   /\ pushLog'[Len(pushLog) + i].key = ResetReleases[i]
                   /\ pushLog'[Len(pushLog) + i].forwarded
             /\ PendingMouseTimers' = {}
             /\ mouse' = MouseIdle]_vars
    /\ [][TimerPushStep =>
             \A m \in (pushLog'[Len(pushLog')].note + 1)..Len(mouseLog) :
                mouseLog[m].kind # "reset"]_vars

\* A reset came while a turn key and the fire key were held and a timer was
\* pending; the time of that timer has passed, and the last two events pushed
\* are the two releases of the reset.
C39_Witness ==
    /\ Len(mouseLog) > 0
    /\ LET r == mouseLog[Len(mouseLog)] IN
          /\ r.kind = "reset"
          /\ r.held # 0 /\ r.down /\ r.timer # 0
          /\ now >= r.at + RELEASE_DELAY
    /\ Len(pushLog) >= 2
    /\ pushLog[Len(pushLog) - 1].key \in {KEY_LEFTARROW, KEY_RIGHTARROW}
    /\ ~pushLog[Len(pushLog) - 1].pressed
    /\ pushLog[Len(pushLog)].key = KEY_FIRE /\ ~pushLog[Len(pushLog)].pressed
    /\ mouse = MouseIdle /\ timers = {}

=============================================================================
